---------------------------- MODULE Spec2Model ----------------------------
(***************************************************************************)
(* A model of the retrieval-and-caching core of unify-pipelines:           *)
(*   - LRUCache and CachedResearchAssistant        (src/rag_cache.py)      *)
(*   - RAGEngine.answer_question / batch_process   (src/src/rag/engine.py) *)
(*   - MilvusRetriever.retrieve               (src/src/rag/retriever.py)   *)
(*     with the MilvusClient it drives        (src/src/milvus_client.py)   *)
(*   - AcademicFormatter.format_context       (src/src/rag/formatter.py)   *)
(*                                                                         *)
(* Python values that may be None are sequences of length at most one:     *)
(* None is <<>> and a present value v is <<v>>.  A call's outcome is a     *)
(* record [kind |-> "return", value |-> v] or [kind |-> "raise", exc |-> e]*)
(* Wall-clock stamps (start_time, timestamp, cached_at, last_accessed) are *)
(* not part of the state; measured durations are.                          *)
(***************************************************************************)
EXTENDS Integers, Sequences, FiniteSets, TLC

VARIABLES
    \* ---- one LRUCache driven directly by get / put (src/rag_cache.py 27-55)
    cache,          \* OrderedDict: sequence of [key, value], oldest first
    capacity,       \* LRUCache.capacity
    lruLast,        \* the last operation: [op, key, value, resident, ret, evicted]
    lastUse,        \* history: key -> tick of its last successful get or put
    tick,           \* history: number of get / put operations so far
    evictedKeys,    \* history: keys evicted so far
    \* ---- RAGEngine.answer_question / batch_process (src/src/rag/engine.py)
    pc,             \* position: idle, retrieve, format, prompt, model, done, batchdone
    mode,           \* the entry point in progress: none, single, batch
    question,       \* answer_question's argument
    sources,        \* answer_question's local: the retrieved sources
    search_metrics, \* answer_question's local: SearchMetrics of the retrieval
    context,        \* answer_question's local: the formatted context
    prompt,         \* generate_response's local: the prompt messages
    context_time,   \* generate_response's local: time spent in generate_prompt
    result,         \* the outcome of answer_question, None while it runs
    questions,      \* batch_process's argument
    responses,      \* batch_process's local list
    bi,             \* batch_process's loop index i
    calls,          \* history: the collaborator calls of this answer_question
    raised,         \* history: the exception a stage of this call raised
    failedLog,      \* history: per batch item, whether a stage raised
    model_response, \* generate_response's local `response`, None before the call
    \* ---- CachedResearchAssistant with a single caller (src/rag_cache.py)
    response_cache, \* LRUCache: response key -> {response, metadata}
    context_cache,  \* LRUCache: context key -> CachedContext
    cache_size,     \* the capacity of both caches
    stats,          \* cache_hits, cache_misses, total_queries
    craPc,          \* position: idle, engine, context, done
    craQuestion,    \* answer_question's argument
    craResponse,    \* answer_question's local `response`, None before it is set
    craResult,      \* the outcome of answer_question, None while it runs
    engineOut,      \* history: the outcome of this call's engine invocation
    hitsBefore,     \* history: cache_hits when this call began
    prevCall,       \* history: the call before this one
    reported,       \* the dictionary get_cache_stats returned last, None after a call
    craCalls,       \* history: the engine invocations of this call
    \* ---- MilvusRetriever.retrieve and its MilvusClient (src/src/rag/retriever.py)
    mrPc,           \* position: idle, embed, connect, get_collection, search,
                    \*           release, disconnect, done
    mc_collection,  \* MilvusClient.collection, None or the handle
    mc_connected,   \* connections.has_connection(alias)
    mc_pymilvus_client, \* MilvusClient.pymilvus_client, None or the client
    mrHits,         \* retrieve's local results[0], None before the search
    mrOutcome,      \* what the try block ended with; the call's outcome
    mrFailed,       \* history: the step of this call that failed, or "none"
    mrAcquired,     \* history: the handles this call opened
    mrReleased,     \* history: the handles this call closed
    mrKinds,        \* history: step -> the exception types its failures raised
    mrCalls,        \* history: the collaborator calls of this retrieve
    \* ---- AcademicFormatter.format_context (src/src/rag/formatter.py)
    fmtPc,          \* position: idle, done
    max_context_length, \* AcademicFormatter.max_context_length
    fmtSources,     \* format_context's argument
    fmtOut,         \* format_context's result: the body parts and the bibliography
    \* ---- threads calling get / put on the LRUCache `cache` (src/rag_cache.py)
    lock,           \* LRUCache.lock: 0 when free, else the thread holding it
    tpc,            \* thread -> position inside get / put
    targ,           \* thread -> the operation it runs: [op, key, value]
    tret,           \* thread -> what its last get returned
    tlen,           \* thread -> what its last len() returned
    seqCache,       \* history: the cache after the operations run one by one
                    \*          in the order they took the lock
    seqRet,         \* history: thread -> what its get returned in that run
    \* ---- functions without state, applied to one input at a time
    fnPc,           \* position: idle, call, done
    fnName,         \* the function applied, "none" when there is none
    fnArgs,         \* its arguments
    fnOut,          \* its outcome
    \* ---- threads calling CachedResearchAssistant.answer_question on the
    \*      caches and the stats above (src/rag_cache.py 124-148)
    ccPc,           \* thread -> position inside answer_question
    ccQuestion,     \* thread -> answer_question's argument
    ccReg,          \* thread -> the counter value its `+= 1` has read
    ccResponse,     \* thread -> its local `response`, None before it is set
    ccEngine,       \* history: thread -> whether this call invoked the engine
    ccStarted,      \* history: the number of calls begun
    ccPuts          \* history: the puts into the response cache, in order

lruVars == <<cache, capacity, lruLast, lastUse, tick, evictedKeys>>

engVars == <<pc, mode, question, sources, search_metrics, context, prompt,
             context_time, result, questions, responses, bi, calls, raised,
             failedLog, model_response>>

craVars == <<response_cache, context_cache, cache_size, stats, craPc,
             craQuestion, craResponse, craResult, engineOut, hitsBefore,
             prevCall, reported, craCalls>>

mrVars == <<mrPc, mc_collection, mc_connected, mc_pymilvus_client, mrHits,
            mrOutcome, mrFailed, mrAcquired, mrReleased, mrKinds, mrCalls>>

fmtVars == <<fmtPc, max_context_length, fmtSources, fmtOut>>

thrVars == <<lock, tpc, targ, tret, tlen, seqCache, seqRet>>

fnVars == <<fnPc, fnName, fnArgs, fnOut>>

ccVars == <<ccPc, ccQuestion, ccReg, ccResponse, ccEngine, ccStarted, ccPuts>>

vars == <<lruVars, engVars, craVars, mrVars, fmtVars, thrVars, fnVars,
          ccVars>>

\* what the steps of one component leave alone
nonLruVars == <<engVars, craVars, mrVars, fmtVars, thrVars, fnVars, ccVars>>
nonEngVars == <<lruVars, craVars, mrVars, fmtVars, thrVars, fnVars, ccVars>>
nonCraVars == <<lruVars, engVars, mrVars, fmtVars, thrVars, fnVars, ccVars>>
nonMrVars == <<lruVars, engVars, craVars, fmtVars, thrVars, fnVars, ccVars>>
nonFmtVars == <<lruVars, engVars, craVars, mrVars, thrVars, fnVars, ccVars>>
nonThrVars == <<capacity, lruLast, lastUse, evictedKeys, engVars, craVars,
                mrVars, fmtVars, fnVars, ccVars>>
nonFnVars == <<lruVars, engVars, craVars, mrVars, fmtVars, thrVars, ccVars>>
nonCcVars == <<lruVars, engVars, craPc, craQuestion, craResponse, craResult,
               engineOut, hitsBefore, prevCall, reported, craCalls, mrVars,
               fmtVars, thrVars, fnVars>>

---------------------------------------------------------------------------
(* Bounds of the model *)

MaxCapacity == 2
MaxOps == 5
MaxBatch == 2
MaxCacheSize == 2
MaxQueries == 3

---------------------------------------------------------------------------
(* Python's None / Optional *)

None == <<>>
Some(v) == <<v>>
IsNone(o) == o = <<>>
Get(o) == o[1]

Return(v) == [kind |-> "return", value |-> v]
Raise(e) == [kind |-> "raise", exc |-> e]

\* an exception object and Python's str(e)
Exc(t, m) == [type |-> t, msg |-> m]
PyStr(e) == IF e.type = "KeyError" THEN "'" \o e.msg \o "'" ELSE e.msg

---------------------------------------------------------------------------
(* collections.OrderedDict as used by LRUCache *)

Keys(c) == {c[i].key : i \in DOMAIN c}

IndexOf(c, k) == CHOOSE i \in DOMAIN c : c[i].key = k

Lookup(c, k) == c[IndexOf(c, k)].value

RemoveAt(c, i) == [j \in 1..(Len(c) - 1) |-> IF j < i THEN c[j] ELSE c[j + 1]]

\* OrderedDict.move_to_end(key): the entry becomes the last (newest) one
move_to_end(c, k) == LET i == IndexOf(c, k) IN Append(RemoveAt(c, i), c[i])

\* OrderedDict.__setitem__: a resident key keeps its place, a new key is appended
setitem(c, k, v) ==
    IF k \in Keys(c)
    THEN [c EXCEPT ![IndexOf(c, k)] = [key |-> k, value |-> v]]
    ELSE Append(c, [key |-> k, value |-> v])

\* OrderedDict.popitem(last=False): drops the first (oldest) entry
popitem_first(c) == Tail(c)

---------------------------------------------------------------------------
(* LRUCache.get / LRUCache.put, each one critical section under self.lock *)

\* a get that forgets to promote the key (FIFO instead of LRU)
LRUCache_get_NoPromote(c, k) ==
    IF k \notin Keys(c)
    THEN [cache |-> c, ret |-> None]
    ELSE [cache |-> c, ret |-> Some(Lookup(c, k))]

LRUCache_get(c, k) ==
    IF k \notin Keys(c)
    THEN [cache |-> c, ret |-> None]
    ELSE [cache |-> move_to_end(c, k), ret |-> Some(Lookup(c, k))]

\* a put that never evicts
LRUCache_put_NoEvict(c, cap, k, v) ==
    LET c1 == IF k \in Keys(c) THEN move_to_end(c, k) ELSE c
    IN  setitem(c1, k, v)

\* a put that overwrites a resident key where it stands
LRUCache_put_InPlace(c, cap, k, v) ==
    LET c2 == setitem(c, k, v)
    IN  IF Len(c2) > cap THEN popitem_first(c2) ELSE c2

LRUCache_put(c, cap, k, v) ==
    LET c1 == IF k \in Keys(c) THEN move_to_end(c, k) ELSE c
        c2 == setitem(c1, k, v)
    IN  IF Len(c2) > cap THEN popitem_first(c2) ELSE c2

---------------------------------------------------------------------------
(* The LRUCache driven by an arbitrary sequence of get and put *)

LruKeys == {"k1", "k2", "k3"}
LruValues == {"v1", "v2"}

NoOp ==
    [op |-> "none", key |-> "", value |-> "", resident |-> FALSE,
     ret |-> None, evicted |-> {}]

InitLRU ==
    /\ cache = <<>>
    /\ capacity \in 0..MaxCapacity
    /\ lruLast = NoOp
    /\ lastUse = [k \in LruKeys |-> 0]
    /\ tick = 0
    /\ evictedKeys = {}

DoGet(k) ==
    /\ tick < MaxOps
    /\ LET r == LRUCache_get(cache, k)
       IN  /\ cache' = r.cache
           /\ lruLast' = [op |-> "get", key |-> k, value |-> "",
                          resident |-> k \in Keys(cache), ret |-> r.ret,
                          evicted |-> {}]
           /\ lastUse' = IF IsNone(r.ret) THEN lastUse
                         ELSE [lastUse EXCEPT ![k] = tick + 1]
    /\ tick' = tick + 1
    /\ UNCHANGED <<capacity, evictedKeys>>
    /\ UNCHANGED nonLruVars

DoPut(k, v) ==
    /\ tick < MaxOps
    /\ LET c2 == LRUCache_put(cache, capacity, k, v)
           gone == (Keys(cache) \cup {k}) \ Keys(c2)
       IN  /\ cache' = c2
           /\ lruLast' = [op |-> "put", key |-> k, value |-> v,
                          resident |-> k \in Keys(cache), ret |-> None,
                          evicted |-> gone]
           /\ evictedKeys' = evictedKeys \cup gone
    /\ lastUse' = [lastUse EXCEPT ![k] = tick + 1]
    /\ tick' = tick + 1
    /\ UNCHANGED capacity
    /\ UNCHANGED nonLruVars

NextLRU ==
    \/ \E k \in LruKeys : DoGet(k)
    \/ \E k \in LruKeys, v \in LruValues : DoPut(k, v)

---------------------------------------------------------------------------
(* Data: questions, sources, metrics, responses (src/src/rag/schemas.py) *)

\* a question is a string, kept as its sequence of characters
Questions == { <<"h", "i">>, <<"H", "i", " ">>, <<"y", "o">> }

\* ArxivSource; doc_id carries its Python type, a string is its characters
IntId(n) == [type |-> "int", val |-> n, str |-> <<>>]
StrId(x) == [type |-> "str", val |-> 0, str |-> x]

ArxivSource(id, file, y, terms, sc) ==
    [doc_id |-> id, source_file |-> file, year |-> y,
     technical_terms |-> terms, score |-> sc]

S1 == ArxivSource(IntId(1), "f1", 2020, <<"a", "b">>, 2)
S2 == ArxivSource(IntId(2), "f2", 2021, <<"b">>, 3)

\* what retriever.retrieve can return
RetrievedLists == { <<>>, <<S1>>, <<S2, S1>> }

\* time is counted in collaborator calls: a call takes one unit, the code
\* between two calls takes none
Durations == {1}

RECURSIVE SumScores(_)
SumScores(ss) == IF ss = <<>> THEN 0 ELSE Head(ss).score + SumScores(Tail(ss))

\* a float kept as a fraction; 0.0 is 0/1
Fraction(n, d) == IF n = 0 THEN [num |-> 0, den |-> 1] ELSE [num |-> n, den |-> d]

SearchMetrics(et, st, tt, n, avg) ==
    [embedding_time |-> et, search_time |-> st, total_time |-> tt,
     num_results |-> n, avg_score |-> avg]

ModelMetrics(ct, it, tt, pt, cpt) ==
    [context_time |-> ct, inference_time |-> it, total_time |-> tt,
     prompt_tokens |-> pt, completion_tokens |-> cpt]

RAGResponse(q, a, ss, sm, mm, err) ==
    [question |-> q, answer |-> a, sources |-> ss, search_metrics |-> sm,
     model_metrics |-> mm, error |-> err]

ZeroSearchMetrics == SearchMetrics(0, 0, 0, 0, Fraction(0, 1))
ZeroModelMetrics == ModelMetrics(0, 0, 0, None, None)

NoPapersAnswer == "No relevant academic papers found for your query."
FailureAnswer == "An error occurred while processing your question."

---------------------------------------------------------------------------
(* The collaborators of the engine: what a call of each can do *)

RetrieverErrors == { Exc("ConnectionError", "Failed to connect to Milvus") }
FormatterErrors == { Exc("AttributeError", "") }
ModelErrors == { Exc("RuntimeError", "model unavailable") }

RetrieverOutcomes ==
    {Raise(e) : e \in RetrieverErrors} \cup {Return(ss) : ss \in RetrievedLists}

Contexts == {"context"}
FormatOutcomes ==
    {Raise(e) : e \in FormatterErrors} \cup {Return(c) : c \in Contexts}

\* generate_prompt returns the messages built from question and context
PromptOutcomes(q, c) ==
    {Raise(e) : e \in FormatterErrors} \cup {Return(<<q, c>>)}

\* a model reply: None, or a dict whose keys may be absent
Reply(ch, us, other) == Some([choices |-> ch, usage |-> us, other |-> other])
Choice(content) == [message |-> Some([content |-> content])]
Usage == [prompt_tokens |-> Some(7), completion_tokens |-> Some(9)]

Replies ==
    { None,
      Reply(None, None, FALSE),
      Reply(None, None, TRUE),
      Reply(Some(<<>>), None, FALSE),
      Reply(Some(<<[message |-> None]>>), None, FALSE),
      Reply(Some(<<Choice(Some("answer"))>>), Some(Usage), FALSE),
      Reply(Some(<<Choice(Some(""))>>), None, FALSE),
      Reply(Some(<<Choice(None)>>), None, FALSE) }

ModelOutcomes ==
    {Raise(e) : e \in ModelErrors} \cup {Return(r) : r \in Replies}

---------------------------------------------------------------------------
(* RAGEngine.retrieve_sources and RAGEngine.generate_response *)

\* retrieve_sources: the retriever's outcome `out`, after `d` seconds
retrieve_sources(out, d) ==
    IF out.kind = "raise"
    THEN Raise(out.exc)
    ELSE LET ss == out.value
         IN  Return([sources |-> ss,
                     metrics |-> SearchMetrics(d, d, d, Len(ss),
                                    IF ss # <<>>
                                    THEN Fraction(SumScores(ss), Len(ss))
                                    ELSE Fraction(0, 1))])

\* `not response`: None or a dict without keys
Falsy(reply) ==
    \/ IsNone(reply)
    \/ (IsNone(Get(reply).choices) /\ IsNone(Get(reply).usage) /\ ~Get(reply).other)

\* response.get('usage', {}).get(key)
UsageField(reply, key) ==
    IF IsNone(Get(reply).usage) THEN None
    ELSE IF key = "prompt_tokens" THEN Get(Get(reply).usage).prompt_tokens
    ELSE Get(Get(reply).usage).completion_tokens

\* a generate_response without the validity check: a reply that has no
\* 'choices' yields an empty answer
generate_response_tail_NoCheck(reply, ct, it) ==
    IF Falsy(reply) \/ IsNone(Get(reply).choices)
    THEN Return([answer |-> Some(""),
                 metrics |-> ModelMetrics(ct, it, ct + it, None, None)])
    ELSE LET choices == Get(Get(reply).choices)
         IN  IF choices = <<>>
             THEN Raise(Exc("IndexError", "list index out of range"))
             ELSE IF IsNone(choices[1].message)
             THEN Raise(Exc("KeyError", "message"))
             ELSE Return([answer |-> Get(choices[1].message).content,
                          metrics |-> ModelMetrics(ct, it, ct + it,
                                        UsageField(reply, "prompt_tokens"),
                                        UsageField(reply, "completion_tokens"))])

\* generate_response after interact_with_model returned `reply`: the validity
\* check, response['choices'][0]['message']['content'], and the metrics
\* (ct, it: the measured context and inference times)
generate_response_tail(reply, ct, it) ==
    IF Falsy(reply) \/ IsNone(Get(reply).choices)
    THEN Raise(Exc("ValueError", "Invalid model response"))
    ELSE LET choices == Get(Get(reply).choices)
         IN  IF choices = <<>>
             THEN Raise(Exc("IndexError", "list index out of range"))
             ELSE IF IsNone(choices[1].message)
             THEN Raise(Exc("KeyError", "message"))
             ELSE Return([answer |-> Get(choices[1].message).content,
                          metrics |-> ModelMetrics(ct, it, ct + it,
                                        UsageField(reply, "prompt_tokens"),
                                        UsageField(reply, "completion_tokens"))])

---------------------------------------------------------------------------
(* RAGEngine.answer_question, one step per collaborator call *)

\* the `if not sources` branch
EmptyResponse(q, sm) ==
    RAGResponse(q, Some(NoPapersAnswer), <<>>, sm, ZeroModelMetrics, None)

\* a handler that lets the exception escape
AnswerQuestionExcept_Reraise(q, e) == Raise(e)

\* a handler that keeps the sources and the metrics measured so far
AnswerQuestionExcept_KeepMeasured(q, e) ==
    Return(RAGResponse(q, Some(FailureAnswer), sources, search_metrics,
                       ZeroModelMetrics, Some(PyStr(e))))

\* a handler that drops the sources and keeps the metrics of the retrieval
AnswerQuestionExcept_KeepMetrics(q, e) ==
    Return(RAGResponse(q, Some(FailureAnswer), <<>>, search_metrics,
                       ZeroModelMetrics, Some(PyStr(e))))

\* the `except Exception as e` handler of answer_question
AnswerQuestionExcept(q, e) ==
    Return(RAGResponse(q, Some(FailureAnswer), <<>>, ZeroSearchMetrics,
                       ZeroModelMetrics, Some(PyStr(e))))

InitEngine ==
    /\ pc = "idle"
    /\ mode = "none"
    /\ question = <<>>
    /\ sources = <<>>
    /\ search_metrics = ZeroSearchMetrics
    /\ context = ""
    /\ prompt = <<>>
    /\ context_time = 0
    /\ result = None
    /\ questions = <<>>
    /\ responses = <<>>
    /\ bi = 0
    /\ calls = <<>>
    /\ raised = None
    /\ failedLog = <<>>
    /\ model_response = None

\* the locals of a fresh answer_question(q) call
EnterAnswerQuestion(q) ==
    /\ question' = q
    /\ pc' = "retrieve"
    /\ sources' = <<>>
    /\ search_metrics' = ZeroSearchMetrics
    /\ context' = ""
    /\ prompt' = <<>>
    /\ context_time' = 0
    /\ result' = None
    /\ calls' = <<>>
    /\ raised' = None
    /\ model_response' = None

\* the locals of answer_question are gone once its caller has the outcome
DropAnswerQuestion ==
    /\ question' = <<>>
    /\ sources' = <<>>
    /\ search_metrics' = ZeroSearchMetrics
    /\ context' = ""
    /\ prompt' = <<>>
    /\ context_time' = 0
    /\ result' = None
    /\ calls' = <<>>
    /\ raised' = None
    /\ model_response' = None

\* a stage raised `e`: control goes to the handler, which ends the call
Fail(e) ==
    /\ raised' = Some(e)
    /\ result' = Some(AnswerQuestionExcept(question, e))
    /\ pc' = "done"

Called(fn, out) == Append(calls, [fn |-> fn, ok |-> out.kind = "return"])

batchVars == <<mode, questions, responses, bi, failedLog>>

\* a caller invokes answer_question(q)
AnswerQuestion(q) ==
    /\ pc = "idle"
    /\ mode = "none"
    /\ mode' = "single"
    /\ EnterAnswerQuestion(q)
    /\ UNCHANGED <<questions, responses, bi, failedLog>>
    /\ UNCHANGED nonEngVars

\* RETRIEVE without the `if not sources` branch
Retrieve_NoEmptyCheck ==
    /\ pc = "retrieve"
    /\ \E out \in RetrieverOutcomes, d \in Durations :
          LET r == retrieve_sources(out, d)
          IN  /\ calls' = Called("retrieve", out)
              /\ IF r.kind = "raise"
                 THEN /\ Fail(r.exc)
                      /\ UNCHANGED <<sources, search_metrics>>
                 ELSE /\ sources' = r.value.sources
                      /\ search_metrics' = r.value.metrics
                      /\ pc' = "format"
                      /\ UNCHANGED <<result, raised>>
    /\ UNCHANGED <<question, context, prompt, context_time, model_response,
                   batchVars>>
    /\ UNCHANGED nonEngVars

\* RETRIEVE: retrieve_sources, then the empty check
Retrieve ==
    /\ pc = "retrieve"
    /\ \E out \in RetrieverOutcomes, d \in Durations :
          LET r == retrieve_sources(out, d)
          IN  /\ calls' = Called("retrieve", out)
              /\ IF r.kind = "raise"
                 THEN /\ Fail(r.exc)
                      /\ UNCHANGED <<sources, search_metrics>>
                 ELSE /\ sources' = r.value.sources
                      /\ search_metrics' = r.value.metrics
                      /\ IF r.value.sources = <<>>
                         THEN /\ result' = Some(Return(EmptyResponse(question,
                                                          r.value.metrics)))
                              /\ pc' = "done"
                         ELSE /\ pc' = "format"
                              /\ UNCHANGED result
                      /\ UNCHANGED raised
    /\ UNCHANGED <<question, context, prompt, context_time, model_response,
                   batchVars>>
    /\ UNCHANGED nonEngVars

\* FORMAT that swallows a formatter error and goes on with an empty context
Format_ErrorIgnored ==
    /\ pc = "format"
    /\ \E out \in FormatOutcomes :
          /\ calls' = Called("format_context", out)
          /\ context' = IF out.kind = "raise" THEN "" ELSE out.value
          /\ pc' = "prompt"
          /\ UNCHANGED <<result, raised>>
    /\ UNCHANGED <<question, sources, search_metrics, prompt, context_time,
                   model_response, batchVars>>
    /\ UNCHANGED nonEngVars

\* FORMAT: formatter.format_context(sources)
Format ==
    /\ pc = "format"
    /\ \E out \in FormatOutcomes :
          /\ calls' = Called("format_context", out)
          /\ IF out.kind = "raise"
             THEN /\ Fail(out.exc)
                  /\ UNCHANGED context
             ELSE /\ context' = out.value
                  /\ pc' = "prompt"
                  /\ UNCHANGED <<result, raised>>
    /\ UNCHANGED <<question, sources, search_metrics, prompt, context_time,
                   model_response, batchVars>>
    /\ UNCHANGED nonEngVars

\* GENERATE, first half: formatter.generate_prompt(question, context)
GeneratePrompt ==
    /\ pc = "prompt"
    /\ \E out \in PromptOutcomes(question, context), d \in Durations :
          /\ calls' = Called("generate_prompt", out)
          /\ IF out.kind = "raise"
             THEN /\ Fail(out.exc)
                  /\ UNCHANGED <<prompt, context_time>>
             ELSE /\ prompt' = out.value
                  /\ context_time' = d
                  /\ pc' = "model"
                  /\ UNCHANGED <<result, raised>>
    /\ UNCHANGED <<question, sources, search_metrics, context, model_response,
                   batchVars>>
    /\ UNCHANGED nonEngVars

\* a GENERATE whose response lists only the sources that are in the context
Interact_ContextSources ==
    /\ pc = "model"
    /\ \E out \in ModelOutcomes, d \in Durations :
          /\ calls' = Called("interact_with_model", out)
          /\ model_response' = IF out.kind = "raise" THEN None
                                ELSE Some(out.value)
          /\ IF out.kind = "raise"
             THEN Fail(out.exc)
             ELSE LET g == generate_response_tail(out.value, context_time, d)
                  IN  IF g.kind = "raise"
                      THEN Fail(g.exc)
                      ELSE /\ result' = Some(Return(RAGResponse(question,
                                           g.value.answer,
                                           SubSeq(sources, 1,
                                             Len(context.context_parts)),
                                           search_metrics, g.value.metrics,
                                           None)))
                           /\ pc' = "done"
                           /\ UNCHANGED raised
    /\ UNCHANGED <<question, sources, search_metrics, context, prompt,
                   context_time, batchVars>>
    /\ UNCHANGED nonEngVars

\* GENERATE, second half: model.interact_with_model(messages=prompt, ...),
\* the rest of generate_response and the final RAGResponse
Interact ==
    /\ pc = "model"
    /\ \E out \in ModelOutcomes, d \in Durations :
          /\ calls' = Called("interact_with_model", out)
          /\ model_response' = IF out.kind = "raise" THEN None
                                ELSE Some(out.value)
          /\ IF out.kind = "raise"
             THEN Fail(out.exc)
             ELSE LET g == generate_response_tail(out.value, context_time, d)
                  IN  IF g.kind = "raise"
                      THEN Fail(g.exc)
                      ELSE /\ result' = Some(Return(RAGResponse(question,
                                           g.value.answer, sources,
                                           search_metrics, g.value.metrics,
                                           None)))
                           /\ pc' = "done"
                           /\ UNCHANGED raised
    /\ UNCHANGED <<question, sources, search_metrics, context, prompt,
                   context_time, batchVars>>
    /\ UNCHANGED nonEngVars

\* the caller has the outcome; the call's frame is gone
LeaveEngine ==
    /\ pc' = "idle"
    /\ mode' = "none"
    /\ DropAnswerQuestion
    /\ questions' = <<>>
    /\ responses' = <<>>
    /\ bi' = 0
    /\ failedLog' = <<>>
    /\ UNCHANGED nonEngVars

\* answer_question hands its outcome to the caller
AnswerQuestionReturn ==
    /\ pc = "done"
    /\ mode = "single"
    /\ LeaveEngine

---------------------------------------------------------------------------
(* RAGEngine.batch_process *)

BatchInputs == UNION {[1..n -> Questions] : n \in 0..MaxBatch}

\* batch_process's own `except Exception as e`
BatchErrorResponse(q, e) ==
    RAGResponse(q, Some("Error: " \o PyStr(e)), <<>>, ZeroSearchMetrics,
                ZeroModelMetrics, Some(PyStr(e)))

\* a caller invokes batch_process(qs); the loop enters its first iteration
BatchProcess(qs) ==
    /\ pc = "idle"
    /\ mode = "none"
    /\ mode' = "batch"
    /\ questions' = qs
    /\ responses' = <<>>
    /\ failedLog' = <<>>
    /\ IF qs = <<>>
       THEN /\ bi' = 0
            /\ pc' = "batchdone"
            /\ UNCHANGED <<question, sources, search_metrics, context, prompt,
                           context_time, result, calls, raised,
                           model_response>>
       ELSE /\ bi' = 1
            /\ EnterAnswerQuestion(qs[1])
    /\ UNCHANGED nonEngVars

\* a loop that stops at the first degraded response
BatchCollect_AbortOnError ==
    /\ pc = "done"
    /\ mode = "batch"
    /\ LET r == Get(result)
           response == IF r.kind = "return" THEN r.value
                       ELSE BatchErrorResponse(question, r.exc)
       IN  /\ responses' = Append(responses, response)
           /\ failedLog' = Append(failedLog, ~IsNone(raised))
           /\ IF bi < Len(questions) /\ IsNone(response.error)
              THEN /\ bi' = bi + 1
                   /\ EnterAnswerQuestion(questions[bi + 1])
              ELSE /\ pc' = "batchdone"
                   /\ DropAnswerQuestion
                   /\ UNCHANGED bi
    /\ UNCHANGED <<mode, questions>>
    /\ UNCHANGED nonEngVars

\* the loop body after answer_question ended: append, then the next iteration
BatchCollect ==
    /\ pc = "done"
    /\ mode = "batch"
    /\ LET r == Get(result)
           response == IF r.kind = "return" THEN r.value
                       ELSE BatchErrorResponse(question, r.exc)
       IN  /\ responses' = Append(responses, response)
           /\ failedLog' = Append(failedLog, ~IsNone(raised))
           /\ IF bi < Len(questions)
              THEN /\ bi' = bi + 1
                   /\ EnterAnswerQuestion(questions[bi + 1])
              ELSE /\ pc' = "batchdone"
                   /\ DropAnswerQuestion
                   /\ UNCHANGED bi
    /\ UNCHANGED <<mode, questions>>
    /\ UNCHANGED nonEngVars

\* batch_process returns responses
BatchReturn ==
    /\ pc = "batchdone"
    /\ mode = "batch"
    /\ LeaveEngine

NextEngine ==
    \/ \E q \in Questions : AnswerQuestion(q)
    \/ Retrieve
    \/ Format
    \/ GeneratePrompt
    \/ Interact
    \/ AnswerQuestionReturn
    \/ \E qs \in BatchInputs : BatchProcess(qs)
    \/ BatchCollect
    \/ BatchReturn

---------------------------------------------------------------------------
(* Strings as sequences of characters: lower(), split(), join(), sorted() *)

\* str.lower() on the characters in use
Lower(ch) == CASE ch = "H" -> "h" [] ch = "I" -> "i" [] ch = "Y" -> "y"
               [] ch = "O" -> "o" [] OTHER -> ch

LowerAll(str) == [i \in DOMAIN str |-> Lower(str[i])]

IsSpace(ch) == ch \in {" ", "\t", "\n"}

\* str.split(): the maximal runs of non-whitespace characters
RECURSIVE SplitFrom(_, _, _)
SplitFrom(str, word, acc) ==
    IF str = <<>>
    THEN IF word = <<>> THEN acc ELSE Append(acc, word)
    ELSE IF IsSpace(Head(str))
    THEN SplitFrom(Tail(str), <<>>, IF word = <<>> THEN acc ELSE Append(acc, word))
    ELSE SplitFrom(Tail(str), Append(word, Head(str)), acc)

Split(str) == SplitFrom(str, <<>>, <<>>)

\* sep.join(words)
RECURSIVE Join(_, _)
Join(sep, words) ==
    IF words = <<>> THEN <<>>
    ELSE IF Len(words) = 1 THEN words[1]
    ELSE words[1] \o sep \o Join(sep, Tail(words))

\* the order of the characters in use, as in ASCII
CharOrder == <<" ", "1", "2", "_", "a", "b">>
CharRank(ch) == CHOOSE i \in DOMAIN CharOrder : CharOrder[i] = ch

RECURSIVE StrLess(_, _)
StrLess(a, b) ==
    IF b = <<>> THEN FALSE
    ELSE IF a = <<>> THEN TRUE
    ELSE IF Head(a) = Head(b) THEN StrLess(Tail(a), Tail(b))
    ELSE CharRank(Head(a)) < CharRank(Head(b))

\* `<` on two doc_ids of the same Python type
IdLess(x, y) == IF x.type = "int" THEN x.val < y.val ELSE StrLess(x.str, y.str)

\* sorted(ids) for ids of one type (stable insertion)
RECURSIVE Insert(_, _)
Insert(x, sorted) ==
    IF sorted = <<>> THEN <<x>>
    ELSE IF IdLess(x, Head(sorted)) THEN <<x>> \o sorted
    ELSE <<Head(sorted)>> \o Insert(x, Tail(sorted))

RECURSIVE Sorted(_)
Sorted(ids) ==
    IF ids = <<>> THEN <<>>
    ELSE Insert(ids[Len(ids)], Sorted(SubSeq(ids, 1, Len(ids) - 1)))

---------------------------------------------------------------------------
(* CachedResearchAssistant: keys and derived artifacts *)

\* a key that keeps the case of the question
compute_cache_key_CaseSensitive(q) == <<"q", ":">> \o Join(<<" ">>, Split(q))

\* f"q:{normalized}"
compute_cache_key(q) == <<"q", ":">> \o Join(<<" ">>, Split(LowerAll(q)))

DocIds(ss) == [i \in DOMAIN ss |-> ss[i].doc_id]

\* sorted() raises on mixed types, '_'.join raises on an item that is no str
compute_context_key(doc_ids) ==
    LET types == {doc_ids[i].type : i \in DOMAIN doc_ids}
    IN  IF Cardinality(types) > 1
        THEN Raise(Exc("TypeError",
                 "'<' not supported between instances of 'str' and 'int'"))
        ELSE IF "int" \in types
        THEN Raise(Exc("TypeError",
                 "sequence item 0: expected str instance, int found"))
        ELSE LET sorted_ids == Sorted(doc_ids)
             IN  Return(<<"c", "t", "x", ":">> \o
                        Join(<<"_">>, [i \in DOMAIN sorted_ids |-> sorted_ids[i].str]))

\* the inner loop of _build_knowledge_graph: `for term in terms`, where
\* terms is the string technical_terms, so a term is one character
RECURSIVE AddTerms(_, _, _)
AddTerms(graph, id, terms) ==
    IF terms = <<>> THEN graph
    ELSE LET term == StrId(<<Head(terms)>>)
             nodes == IF \E i \in DOMAIN graph.nodes : graph.nodes[i].id = term
                      THEN graph.nodes
                      ELSE Append(graph.nodes,
                                  [id |-> term, type |-> "term", year |-> None])
             edges == Append(graph.edges,
                             [source |-> id, target |-> term, type |-> "contains"])
         IN  AddTerms([nodes |-> nodes, edges |-> edges], id, Tail(terms))

RECURSIVE GraphFrom(_, _)
GraphFrom(graph, ss) ==
    IF ss = <<>> THEN graph
    ELSE LET src == Head(ss)
             withPaper == [graph EXCEPT !.nodes =
                              Append(@, [id |-> src.doc_id, type |-> "paper",
                                         year |-> Some(src.year)])]
         IN  GraphFrom(AddTerms(withPaper, src.doc_id, src.technical_terms),
                       Tail(ss))

build_knowledge_graph(ss) == GraphFrom([nodes |-> <<>>, edges |-> <<>>], ss)

\* year -> the entries of the sources of that year, in order
organize_temporal_data(ss) ==
    [y \in {ss[i].year : i \in DOMAIN ss} |->
        LET ofYear == SelectSeq(ss, LAMBDA src : src.year = y)
        IN  [i \in DOMAIN ofYear |->
                [id |-> ofYear[i].doc_id, source_file |-> ofYear[i].source_file]]]

\* context.papers: doc_id -> the fields of the last source with that id
PapersOf(ss) ==
    [id \in {ss[i].doc_id : i \in DOMAIN ss} |->
        LET last == CHOOSE i \in DOMAIN ss :
                       /\ ss[i].doc_id = id
                       /\ \A j \in DOMAIN ss : ss[j].doc_id = id => j <= i
        IN  [source_file |-> ss[last].source_file, year |-> ss[last].year,
             technical_terms |-> ss[last].technical_terms]]

CachedContext(doc_ids, ss) ==
    [papers |-> PapersOf(ss),
     knowledge_graph |-> build_knowledge_graph(ss),
     temporal_data |-> organize_temporal_data(ss),
     doc_count |-> Len(doc_ids)]

\* the dict _cache_response stores
ResponseEntry(response) ==
    [response |-> response, sources |-> DocIds(response.sources)]

\* _cache_context: the key first, then the artifact, then the put
cache_context(ctxCache, cap, doc_ids, ss) ==
    LET k == compute_context_key(doc_ids)
    IN  IF k.kind = "raise"
        THEN [cache |-> ctxCache, out |-> k]
        ELSE [cache |-> LRUCache_put(ctxCache, cap, k.value,
                                     CachedContext(doc_ids, ss)),
              out |-> Return(k.value)]

---------------------------------------------------------------------------
(* The engine a CachedResearchAssistant wraps *)

\* sources whose doc_id is a string, as the annotations of rag_cache.py say
T1 == ArxivSource(StrId(<<"1">>), "f1", 2020, <<"a", "b">>, 2)
T2 == ArxivSource(StrId(<<"2">>), "f2", 2021, <<"b">>, 3)

WrappedSourceLists == { <<S1>>, <<T1>>, <<T2, T1>>, <<T1, T2>> }
WrappedAnswers == {"answer", "another answer"}
WrappedErrors == { Exc("RuntimeError", "engine unavailable") }

WrappedResponses(q) ==
    { RAGResponse(q, Some(a), ss,
                  retrieve_sources(Return(ss), 1).value.metrics,
                  ModelMetrics(1, 1, 2, None, None), None) :
        a \in WrappedAnswers, ss \in WrappedSourceLists }
    \cup { EmptyResponse(q, retrieve_sources(Return(<<>>), 1).value.metrics) }
    \cup { AnswerQuestionExcept(q, e).value : e \in RetrieverErrors }

\* engine.answer_question(q): a response, or (for an engine other than
\* RAGEngine) an exception
WrappedOutcomes(q) ==
    {Raise(e) : e \in WrappedErrors} \cup {Return(r) : r \in WrappedResponses(q)}

---------------------------------------------------------------------------
(* CachedResearchAssistant.answer_question, a single caller *)

\* the questions asked: those of the engine, and two that differ from each
\* other in case and in the whitespace around and between their words
CachedQuestions ==
    Questions \cup { <<"h", " ", "i">>, <<" ", "H", "\t", " ", "I">> }

InitCached ==
    /\ response_cache = <<>>
    /\ context_cache = <<>>
    /\ cache_size \in 1..MaxCacheSize
    /\ stats = [cache_hits |-> 0, cache_misses |-> 0, total_queries |-> 0]
    /\ craPc = "idle"
    /\ craQuestion = <<>>
    /\ craResponse = None
    /\ craResult = None
    /\ engineOut = None
    /\ hitsBefore = 0
    /\ prevCall = None
    /\ reported = None
    /\ craCalls = 0

\* the count, the probe of the response cache, and the hit path
CachedProbe(q) ==
    /\ craPc = "idle"
    /\ stats.total_queries < MaxQueries
    /\ craQuestion' = q
    /\ hitsBefore' = stats.cache_hits
    /\ LET r == LRUCache_get(response_cache, compute_cache_key(q))
       IN  /\ response_cache' = r.cache
           /\ IF ~IsNone(r.ret)
              THEN /\ stats' = [stats EXCEPT !.total_queries = @ + 1,
                                             !.cache_hits = @ + 1]
                   /\ craResult' = Some(Return(Get(r.ret).response))
                   /\ craPc' = "done"
              ELSE /\ stats' = [stats EXCEPT !.total_queries = @ + 1,
                                             !.cache_misses = @ + 1]
                   /\ craResult' = None
                   /\ craPc' = "engine"
    /\ craResponse' = None
    /\ engineOut' = None
    /\ reported' = None
    /\ craCalls' = 0
    /\ UNCHANGED <<context_cache, cache_size, prevCall>>
    /\ UNCHANGED nonCraVars

\* a miss path that caches a failure response when the engine raises
CachedEngine_CacheFailure ==
    /\ craPc = "engine"
    /\ \E out \in WrappedOutcomes(craQuestion) :
          /\ engineOut' = Some(out)
          /\ IF out.kind = "raise"
             THEN /\ craResult' = Some(Raise(out.exc))
                  /\ craPc' = "done"
                  /\ response_cache' =
                        LRUCache_put(response_cache, cache_size,
                                     compute_cache_key(craQuestion),
                                     ResponseEntry(
                                        CHOOSE v \in
                                          WrappedResponses(craQuestion) :
                                            TRUE))
                  /\ UNCHANGED craResponse
             ELSE /\ craResponse' = Some(out.value)
                  /\ response_cache' =
                        LRUCache_put(response_cache, cache_size,
                                     compute_cache_key(craQuestion),
                                     ResponseEntry(out.value))
                  /\ craPc' = "context"
                  /\ UNCHANGED craResult
    /\ craCalls' = craCalls + 1
    /\ UNCHANGED <<context_cache, cache_size, stats, craQuestion, hitsBefore,
                   prevCall, reported>>
    /\ UNCHANGED nonCraVars

\* a miss path that leaves the response to be stored after the context
CachedEngine_ContextFirst ==
    /\ craPc = "engine"
    /\ \E out \in WrappedOutcomes(craQuestion) :
          /\ engineOut' = Some(out)
          /\ IF out.kind = "raise"
             THEN /\ craResult' = Some(Raise(out.exc))
                  /\ craPc' = "done"
                  /\ UNCHANGED craResponse
             ELSE /\ craResponse' = Some(out.value)
                  /\ craPc' = "context"
                  /\ UNCHANGED craResult
    /\ craCalls' = craCalls + 1
    /\ UNCHANGED <<response_cache, context_cache, cache_size, stats,
                   craQuestion, hitsBefore, prevCall, reported>>
    /\ UNCHANGED nonCraVars

\* a miss path that stores only responses with sources and without error
CachedEngine_SkipDegraded ==
    /\ craPc = "engine"
    /\ \E out \in WrappedOutcomes(craQuestion) :
          /\ engineOut' = Some(out)
          /\ IF out.kind = "raise"
             THEN /\ craResult' = Some(Raise(out.exc))
                  /\ craPc' = "done"
                  /\ UNCHANGED <<response_cache, craResponse>>
             ELSE /\ craResponse' = Some(out.value)
                  /\ response_cache' =
                        IF ~IsNone(out.value.error) \/ out.value.sources = <<>>
                        THEN response_cache
                        ELSE LRUCache_put(response_cache, cache_size,
                                          compute_cache_key(craQuestion),
                                          ResponseEntry(out.value))
                  /\ craPc' = "context"
                  /\ UNCHANGED craResult
    /\ craCalls' = craCalls + 1
    /\ UNCHANGED <<context_cache, cache_size, stats, craQuestion, hitsBefore,
                   prevCall, reported>>
    /\ UNCHANGED nonCraVars

\* the miss path: engine.answer_question, then _cache_response
CachedEngine ==
    /\ craPc = "engine"
    /\ \E out \in WrappedOutcomes(craQuestion) :
          /\ engineOut' = Some(out)
          /\ IF out.kind = "raise"
             THEN /\ craResult' = Some(Raise(out.exc))
                  /\ craPc' = "done"
                  /\ UNCHANGED <<response_cache, craResponse>>
             ELSE /\ craResponse' = Some(out.value)
                  /\ response_cache' =
                        LRUCache_put(response_cache, cache_size,
                                     compute_cache_key(craQuestion),
                                     ResponseEntry(out.value))
                  /\ craPc' = "context"
                  /\ UNCHANGED craResult
    /\ craCalls' = craCalls + 1
    /\ UNCHANGED <<context_cache, cache_size, stats, craQuestion, hitsBefore,
                   prevCall, reported>>
    /\ UNCHANGED nonCraVars

\* a context step that keeps its entries in the response cache's store
CachedContextStore_SharedStore ==
    /\ craPc = "context"
    /\ LET response == Get(craResponse)
           r == cache_context(response_cache, cache_size,
                              DocIds(response.sources), response.sources)
       IN  /\ response_cache' = r.cache
           /\ context_cache' = cache_context(context_cache, cache_size,
                                             DocIds(response.sources),
                                             response.sources).cache
           /\ craResult' = IF r.out.kind = "raise"
                           THEN Some(Raise(r.out.exc))
                           ELSE Some(Return(response))
    /\ craPc' = "done"
    /\ UNCHANGED <<cache_size, stats, craQuestion, craResponse, engineOut,
                   hitsBefore, prevCall, reported, craCalls>>
    /\ UNCHANGED nonCraVars

\* the miss path, continued: _cache_context, then `return response`
CachedContextStore ==
    /\ craPc = "context"
    /\ LET response == Get(craResponse)
           r == cache_context(context_cache, cache_size,
                              DocIds(response.sources), response.sources)
       IN  /\ context_cache' = r.cache
           /\ craResult' = IF r.out.kind = "raise"
                           THEN Some(Raise(r.out.exc))
                           ELSE Some(Return(response))
    /\ craPc' = "done"
    /\ UNCHANGED <<response_cache, cache_size, stats, craQuestion,
                   craResponse, engineOut, hitsBefore, prevCall, reported,
                   craCalls>>
    /\ UNCHANGED nonCraVars

\* the caller has the outcome
CachedReturn ==
    /\ craPc = "done"
    /\ prevCall' = Some([question |-> craQuestion, result |-> Get(craResult),
                         engineOut |-> engineOut])
    /\ craPc' = "idle"
    /\ craQuestion' = <<>>
    /\ craResponse' = None
    /\ craResult' = None
    /\ engineOut' = None
    /\ hitsBefore' = 0
    /\ craCalls' = 0
    /\ UNCHANGED <<response_cache, context_cache, cache_size, stats,
                   reported>>
    /\ UNCHANGED nonCraVars

\* str(n) of a natural number
DigitChars == <<"0", "1", "2", "3", "4", "5", "6", "7", "8", "9">>

RECURSIVE NatStr(_)
NatStr(n) ==
    IF n < 10 THEN <<DigitChars[n + 1]>>
    ELSE NatStr(n \div 10) \o <<DigitChars[(n % 10) + 1]>>

\* num/den rounded to an integer, a tie going to the even neighbour
RoundHalfEven(num, den) ==
    LET q == num \div den
        r == num % den
    IN  IF 2 * r < den THEN q
        ELSE IF 2 * r > den THEN q + 1
        ELSE IF q % 2 = 0 THEN q ELSE q + 1

\* a formatting that prints the ratio itself, without the percent
FormatPercent_Ratio(hits, total) ==
    LET h == RoundHalfEven(hits * 100, total)
    IN  NatStr(h \div 100) \o <<".">>
        \o <<DigitChars[((h % 100) \div 10) + 1], DigitChars[(h % 10) + 1]>>

\* f"{hit_rate:.2f}%" of hit_rate = hits / total * 100
FormatPercent(hits, total) ==
    LET h == RoundHalfEven(hits * 10000, total)
    IN  NatStr(h \div 100) \o <<".">>
        \o <<DigitChars[((h % 100) \div 10) + 1], DigitChars[(h % 10) + 1]>>
        \o <<"%">>

Max(a, b) == IF a >= b THEN a ELSE b

\* CachedResearchAssistant.get_cache_stats
get_cache_stats(st, rc, cc) ==
    [hit_rate |-> FormatPercent(st.cache_hits, Max(1, st.total_queries)),
     hits |-> st.cache_hits,
     misses |-> st.cache_misses,
     total_queries |-> st.total_queries,
     response_cache_size |-> Len(rc),
     context_cache_size |-> Len(cc)]

\* a caller reads the statistics between two questions
GetCacheStats ==
    /\ craPc = "idle"
    /\ reported' = Some(get_cache_stats(stats, response_cache, context_cache))
    /\ UNCHANGED <<response_cache, context_cache, cache_size, stats, craPc,
                   craQuestion, craResponse, craResult, engineOut, hitsBefore,
                   prevCall, craCalls>>
    /\ UNCHANGED nonCraVars

NextCached ==
    \/ \E q \in CachedQuestions : CachedProbe(q)
    \/ CachedEngine
    \/ CachedContextStore
    \/ CachedReturn
    \/ GetCacheStats

---------------------------------------------------------------------------
(* MilvusClient: connect, get_collection, release_collection, disconnect  *)
(* (src/src/milvus_client.py).  Every method catches what its calls to     *)
(* pymilvus raise; `o` names what those calls did.                          *)

MaxHits == 2

ConnectOutcomes == {"init_failed", "database_failed", "connection_failed",
                    "connected"}
GetCollectionOutcomes == {"lookup_failed", "absent", "load_failed", "loaded"}
ReleaseOutcomes == {"ok", "error"}

\* connect(): setup_database() builds the PyMilvusClient and lists the
\* databases, then connections.connect(alias) is tried `retries` times
MilvusClient_connect(client, connected, o) ==
    [pymilvus_client |-> IF o = "init_failed" THEN client ELSE Some("client"),
     connected |-> connected \/ (o = "connected"),
     ret |-> (o = "connected")]

\* get_collection(): a held handle is reused; otherwise the collection is
\* looked up; a non-empty collection is loaded; any exception gives None
MilvusClient_get_collection(col, o) ==
    IF IsNone(col) /\ o \in {"lookup_failed", "absent"}
    THEN [collection |-> None, ret |-> None]
    ELSE IF o = "load_failed"
    THEN [collection |-> Some("handle"), ret |-> None]
    ELSE [collection |-> Some("handle"), ret |-> Some("handle")]

\* release_collection(): collection.release(), then the handle is dropped;
\* an exception of release() is logged and the handle stays
MilvusClient_release_collection(col, o) ==
    IF IsNone(col) THEN [collection |-> col, ret |-> FALSE]
    ELSE IF o = "ok" THEN [collection |-> None, ret |-> TRUE]
    ELSE [collection |-> col, ret |-> FALSE]

\* disconnect(): release_collection() when a handle is held, then
\* connections.disconnect(alias) when the alias is connected; an exception
\* is logged.  self.pymilvus_client is left as it is.
MilvusClient_disconnect(col, connected, o1, o2) ==
    [collection |-> MilvusClient_release_collection(col, o1).collection,
     connected |-> connected /\ (o2 # "ok"),
     ret |-> (o2 = "ok")]

---------------------------------------------------------------------------
(* MilvusRetriever.retrieve (src/src/rag/retriever.py 85-166) *)

\* a search hit; distance is None when float(hit.distance) would raise
Hit(id, file, dist) == [doc_id |-> id, source_file |-> file, distance |-> dist]

H1 == Hit(1, "f1", Some(2))
H1b == Hit(3, "f1", Some(3))
H2 == Hit(2, "f2", Some(3))
HBad == Hit(4, "f3", None)

HitPool == {H1, H1b, H2, HBad}

\* results[0] of collection.search(..., limit=top_k)
SearchResults == UNION {[1..n -> HitPool] : n \in 0..MaxHits}

\* embedding_client is None when its construction failed (embedding.py 103-109)
EmbeddingErrors ==
    { Exc("AttributeError", "'NoneType' object has no attribute 'get_embedding'") }
EmbeddingOutcomes ==
    {Raise(e) : e \in EmbeddingErrors} \cup {Return(None), Return(Some("vector"))}

SearchErrors == { Exc("MilvusException", "search failed") }
SearchOutcomes ==
    {Raise(e) : e \in SearchErrors} \cup {Return(h) : h \in SearchResults}

\* the loop over results[0]: a hit whose mapping raises is logged and skipped
RECURSIVE process_results(_)
process_results(hits) ==
    IF hits = <<>> THEN <<>>
    ELSE LET hit == Head(hits)
         IN  IF IsNone(hit.distance)
             THEN process_results(Tail(hits))
             ELSE <<ArxivSource(IntId(hit.doc_id), hit.source_file, 0, <<>>,
                                Get(hit.distance))>>
                  \o process_results(Tail(hits))

\* the causes of a failed retrieve call
FailureCauses == {"embedding_raised", "no_vector", "connect", "get_collection",
                  "search"}

InitRetriever ==
    /\ mrPc = "idle"
    /\ mc_collection = None
    /\ mc_connected = FALSE
    /\ mc_pymilvus_client = None
    /\ mrHits = None
    /\ mrOutcome = None
    /\ mrFailed = "none"
    /\ mrAcquired = {}
    /\ mrReleased = {}
    /\ mrKinds = [c \in FailureCauses |-> {}]
    /\ mrCalls = <<>>

\* the try block raised `e` at the step `cause`: control goes to `finally`
MilvusFail(cause, e) ==
    /\ mrOutcome' = Some(Raise(e))
    /\ mrFailed' = cause
    /\ mrKinds' = [mrKinds EXCEPT ![cause] = @ \cup {e.type}]
    /\ mrPc' = "release"

\* a caller invokes retrieve(query, top_k)
MilvusRetrieve ==
    /\ mrPc = "idle"
    /\ mrPc' = "embed"
    /\ mrHits' = None
    /\ mrOutcome' = None
    /\ mrFailed' = "none"
    /\ mrAcquired' = {}
    /\ mrReleased' = {}
    /\ mrCalls' = <<>>
    /\ UNCHANGED <<mc_collection, mc_connected, mc_pymilvus_client, mrKinds>>
    /\ UNCHANGED nonMrVars

\* embedding_client.get_embedding(query, input_type="query")
MilvusEmbed ==
    /\ mrCalls' = Append(mrCalls, "get_embedding")
    /\ mrPc = "embed"
    /\ \E out \in EmbeddingOutcomes :
          IF out.kind = "raise"
          THEN MilvusFail("embedding_raised", out.exc)
          ELSE IF IsNone(out.value)
          THEN MilvusFail("no_vector",
                          Exc("ValueError", "Failed to generate query embedding"))
          ELSE /\ mrPc' = "connect"
               /\ UNCHANGED <<mrOutcome, mrFailed, mrKinds>>
    /\ UNCHANGED <<mc_collection, mc_connected, mc_pymilvus_client, mrHits,
                   mrAcquired, mrReleased>>
    /\ UNCHANGED nonMrVars

\* milvus_client.connect()
MilvusConnect ==
    /\ mrCalls' = Append(mrCalls, "connect")
    /\ mrPc = "connect"
    /\ \E o \in ConnectOutcomes :
          LET r == MilvusClient_connect(mc_pymilvus_client, mc_connected, o)
          IN  /\ mc_pymilvus_client' = r.pymilvus_client
              /\ mc_connected' = r.connected
              /\ mrAcquired' = mrAcquired
                    \cup (IF o # "init_failed" THEN {"pymilvus_client"} ELSE {})
                    \cup (IF r.connected /\ ~mc_connected THEN {"connection"}
                          ELSE {})
              /\ IF ~r.ret
                 THEN MilvusFail("connect",
                                 Exc("ConnectionError", "Failed to connect to Milvus"))
                 ELSE /\ mrPc' = "get_collection"
                      /\ UNCHANGED <<mrOutcome, mrFailed, mrKinds>>
    /\ UNCHANGED <<mc_collection, mrHits, mrReleased>>
    /\ UNCHANGED nonMrVars

\* milvus_client.get_collection()
MilvusGetCollection ==
    /\ mrCalls' = Append(mrCalls, "get_collection")
    /\ mrPc = "get_collection"
    /\ \E o \in GetCollectionOutcomes :
          LET r == MilvusClient_get_collection(mc_collection, o)
          IN  /\ mc_collection' = r.collection
              /\ mrAcquired' = mrAcquired
                    \cup (IF IsNone(mc_collection) /\ ~IsNone(r.collection)
                          THEN {"collection"} ELSE {})
              /\ IF IsNone(r.ret)
                 THEN MilvusFail("get_collection",
                                 Exc("ValueError", "Failed to get collection"))
                 ELSE /\ mrPc' = "search"
                      /\ UNCHANGED <<mrOutcome, mrFailed, mrKinds>>
    /\ UNCHANGED <<mc_connected, mc_pymilvus_client, mrHits, mrReleased>>
    /\ UNCHANGED nonMrVars

\* a search that is tried a second time when it raises
MilvusSearch_Retry ==
    /\ mrPc = "search"
    /\ \E out \in SearchOutcomes :
          IF out.kind = "raise"
          THEN /\ mrCalls' = mrCalls \o <<"search", "search">>
               /\ MilvusFail("search", out.exc)
               /\ UNCHANGED mrHits
          ELSE /\ mrCalls' = Append(mrCalls, "search")
               /\ mrHits' = Some(out.value)
               /\ mrOutcome' = Some(Return(IF out.value = <<>> THEN <<>>
                                           ELSE process_results(out.value)))
               /\ mrPc' = "release"
               /\ UNCHANGED <<mrFailed, mrKinds>>
    /\ UNCHANGED <<mc_collection, mc_connected, mc_pymilvus_client, mrAcquired,
                   mrReleased>>
    /\ UNCHANGED nonMrVars

\* collection.search(...), the empty check and the loop over the hits
MilvusSearch ==
    /\ mrCalls' = Append(mrCalls, "search")
    /\ mrPc = "search"
    /\ \E out \in SearchOutcomes :
          IF out.kind = "raise"
          THEN /\ MilvusFail("search", out.exc)
               /\ UNCHANGED mrHits
          ELSE /\ mrHits' = Some(out.value)
               /\ mrOutcome' = Some(Return(IF out.value = <<>> THEN <<>>
                                           ELSE process_results(out.value)))
               /\ mrPc' = "release"
               /\ UNCHANGED <<mrFailed, mrKinds>>
    /\ UNCHANGED <<mc_collection, mc_connected, mc_pymilvus_client, mrAcquired,
                   mrReleased>>
    /\ UNCHANGED nonMrVars

\* finally: milvus_client.release_collection()
MilvusRelease ==
    /\ mrCalls' = Append(mrCalls, "release_collection")
    /\ mrPc = "release"
    /\ \E o \in ReleaseOutcomes :
          LET r == MilvusClient_release_collection(mc_collection, o)
          IN  /\ mc_collection' = r.collection
              /\ mrReleased' = mrReleased
                    \cup (IF r.ret THEN {"collection"} ELSE {})
    /\ mrPc' = "disconnect"
    /\ UNCHANGED <<mc_connected, mc_pymilvus_client, mrHits, mrOutcome,
                   mrFailed, mrAcquired, mrKinds>>
    /\ UNCHANGED nonMrVars

\* finally: milvus_client.disconnect()
MilvusDisconnect ==
    /\ mrCalls' = Append(mrCalls, "disconnect")
    /\ mrPc = "disconnect"
    /\ \E o1 \in ReleaseOutcomes, o2 \in ReleaseOutcomes :
          LET r == MilvusClient_disconnect(mc_collection, mc_connected, o1, o2)
          IN  /\ mc_collection' = r.collection
              /\ mc_connected' = r.connected
              /\ mrReleased' = mrReleased
                    \cup (IF ~IsNone(mc_collection) /\ IsNone(r.collection)
                          THEN {"collection"} ELSE {})
                    \cup (IF mc_connected /\ ~r.connected THEN {"connection"}
                          ELSE {})
    /\ mrPc' = "done"
    /\ UNCHANGED <<mc_pymilvus_client, mrHits, mrOutcome, mrFailed, mrAcquired,
                   mrKinds>>
    /\ UNCHANGED nonMrVars

\* the caller has the outcome
MilvusReturn ==
    /\ mrPc = "done"
    /\ mrPc' = "idle"
    /\ mrHits' = None
    /\ mrOutcome' = None
    /\ mrFailed' = "none"
    /\ mrAcquired' = {}
    /\ mrReleased' = {}
    /\ mrCalls' = <<>>
    /\ UNCHANGED <<mc_collection, mc_connected, mc_pymilvus_client, mrKinds>>
    /\ UNCHANGED nonMrVars

NextRetriever ==
    \/ MilvusRetrieve
    \/ MilvusEmbed
    \/ MilvusConnect
    \/ MilvusGetCollection
    \/ MilvusSearch
    \/ MilvusRelease
    \/ MilvusDisconnect
    \/ MilvusReturn

---------------------------------------------------------------------------
(* AcademicFormatter.format_context (src/src/rag/formatter.py 50-124) *)

MaxBudget == 5
MaxSources == 3

\* sources whose renderings differ in length
F1 == ArxivSource(IntId(1), "f1", 2020, <<"a">>, 1)
F2 == ArxivSource(IntId(2), "f2", 2021, <<"a", "b">>, 2)
F3 == ArxivSource(IntId(3), "f3", 2022, <<>>, 3)

FormatterPool == {F1, F2, F3}

FormatterInputs == UNION {[1..n -> FormatterPool] : n \in 0..MaxSources}

\* the length of the fixed text of the template; lengths are counted in
\* units of that text
TemplateLength == 1

\* format_source: the rendering of `source` under the index `index`, whole;
\* its length is the template's plus that of the fields filled in
format_source(index, source) ==
    [index |-> index, source |-> source,
     length |-> TemplateLength + Len(source.technical_terms)]

\* a loop that skips a source that does not fit and goes on with the next
RECURSIVE format_loop_SkipAndContinue(_, _, _, _, _)
format_loop_SkipAndContinue(ss, i, budget, context_parts, total_length) ==
    IF i > Len(ss)
    THEN [context_parts |-> context_parts, total_length |-> total_length]
    ELSE LET formatted_source == format_source(i, ss[i])
         IN  IF total_length + formatted_source.length > budget
             THEN format_loop_SkipAndContinue(ss, i + 1, budget, context_parts,
                                              total_length)
             ELSE format_loop_SkipAndContinue(ss, i + 1, budget,
                      Append(context_parts, formatted_source),
                      total_length + formatted_source.length)

\* the loop `for i, source in enumerate(sources, 1)` from index i on
RECURSIVE format_loop(_, _, _, _, _)
format_loop(ss, i, budget, context_parts, total_length) ==
    IF i > Len(ss)
    THEN [context_parts |-> context_parts, total_length |-> total_length]
    ELSE LET formatted_source == format_source(i, ss[i])
         IN  IF total_length + formatted_source.length > budget
             THEN [context_parts |-> context_parts, total_length |-> total_length]
             ELSE format_loop(ss, i + 1, budget,
                      Append(context_parts, formatted_source),
                      total_length + formatted_source.length)

\* append_bibliography: one entry per source, numbered from 1
append_bibliography(ss) ==
    [i \in DOMAIN ss |->
        [index |-> i, source_file |-> ss[i].source_file, year |-> ss[i].year]]

\* a format_context whose bibliography lists every source it was given
format_context_FullBibliography(ss, budget) ==
    IF ss = <<>>
    THEN [none_found |-> TRUE, context_parts |-> <<>>, bibliography |-> <<>>]
    ELSE LET r == format_loop(ss, 1, budget, <<>>, 0)
         IN  [none_found |-> FALSE,
              context_parts |-> r.context_parts,
              bibliography |-> append_bibliography(ss)]

\* a format_context that always keeps the first source, whatever its length
format_context_AtLeastOne(ss, budget) ==
    IF ss = <<>>
    THEN [none_found |-> TRUE, context_parts |-> <<>>, bibliography |-> <<>>]
    ELSE LET first == format_source(1, ss[1])
             r == format_loop(ss, 2, budget, <<first>>, first.length)
         IN  [none_found |-> FALSE,
              context_parts |-> r.context_parts,
              bibliography |->
                  append_bibliography(SubSeq(ss, 1, Len(r.context_parts)))]

\* format_context: the canned text for no sources, else the parts that fit
\* followed by the bibliography of sources[:len(context_parts)]
format_context(ss, budget) ==
    IF ss = <<>>
    THEN [none_found |-> TRUE, context_parts |-> <<>>, bibliography |-> <<>>]
    ELSE LET r == format_loop(ss, 1, budget, <<>>, 0)
         IN  [none_found |-> FALSE,
              context_parts |-> r.context_parts,
              bibliography |->
                  append_bibliography(SubSeq(ss, 1, Len(r.context_parts)))]

NoContext == [none_found |-> FALSE, context_parts |-> <<>>, bibliography |-> <<>>]

InitFormatter ==
    /\ fmtPc = "idle"
    /\ max_context_length \in 0..MaxBudget
    /\ fmtSources = <<>>
    /\ fmtOut = NoContext

\* a caller invokes format_context(ss)
FormatContext(ss) ==
    /\ fmtPc = "idle"
    /\ fmtSources' = ss
    /\ fmtOut' = format_context(ss, max_context_length)
    /\ fmtPc' = "done"
    /\ UNCHANGED max_context_length
    /\ UNCHANGED nonFmtVars

\* the caller has the context
FormatContextReturn ==
    /\ fmtPc = "done"
    /\ fmtPc' = "idle"
    /\ fmtSources' = <<>>
    /\ fmtOut' = NoContext
    /\ UNCHANGED max_context_length
    /\ UNCHANGED nonFmtVars

NextFormatter ==
    \/ \E ss \in FormatterInputs : FormatContext(ss)
    \/ FormatContextReturn

---------------------------------------------------------------------------
(* Threads calling LRUCache.get / LRUCache.put, one statement per step    *)
(* (src/rag_cache.py 35-55).  `with self.lock` blocks until the lock is    *)
(* free; leaving the block, by return or at its end, frees it.             *)

MaxThreadOps == 3

Threads == {"t1", "t2"}
ThreadKeys == {"k1", "k2"}
ThreadValues == {"v1", "v2"}

ThreadOps ==
    {[op |-> "get", key |-> k, value |-> "v1"] : k \in ThreadKeys}
    \cup {[op |-> "put", key |-> k, value |-> v] : k \in ThreadKeys,
                                                    v \in ThreadValues}
    \cup {[op |-> "len", key |-> "k1", value |-> "v1"]}

NoThread == "none"

\* a lock that lets every thread in
LockFree_Ignored(l) == TRUE

\* threading.Lock: acquire succeeds only while no thread holds the lock
LockFree(l) == l = NoThread

InCriticalSection(t) == tpc[t] \notin {"idle", "waiting"}

InitThreads ==
    /\ lock = NoThread
    /\ tpc = [t \in Threads |-> "idle"]
    /\ targ = [t \in Threads |-> [op |-> "none", key |-> "", value |-> ""]]
    /\ tret = [t \in Threads |-> None]
    /\ tlen = [t \in Threads |-> 0]
    /\ seqCache = <<>>
    /\ seqRet = [t \in Threads |-> None]

\* thread t calls get(key), put(key, value) or len() and reaches
\* `with self.lock`
ThreadCall(t, o) ==
    /\ tpc[t] = "idle"
    /\ tick < MaxThreadOps
    /\ tick' = tick + 1
    /\ targ' = [targ EXCEPT ![t] = o]
    /\ tret' = [tret EXCEPT ![t] = None]
    /\ seqRet' = [seqRet EXCEPT ![t] = None]
    /\ tpc' = [tpc EXCEPT ![t] = "waiting"]
    /\ UNCHANGED <<cache, lock, tlen, seqCache>>
    /\ UNCHANGED nonThrVars

\* thread t enters the with block; the one-by-one run performs t's operation
ThreadAcquire(t) ==
    /\ tpc[t] = "waiting"
    /\ LockFree(lock)
    /\ lock' = t
    /\ tpc' = [tpc EXCEPT ![t] = CASE targ[t].op = "get" -> "get_check"
                                   [] targ[t].op = "put" -> "put_check"
                                   [] OTHER -> "len_read"]
    /\ CASE targ[t].op = "get" ->
                LET r == LRUCache_get(seqCache, targ[t].key)
                IN  /\ seqCache' = r.cache
                    /\ seqRet' = [seqRet EXCEPT ![t] = r.ret]
         [] targ[t].op = "put" ->
                /\ seqCache' = LRUCache_put(seqCache, capacity, targ[t].key,
                                            targ[t].value)
                /\ UNCHANGED seqRet
         [] OTHER -> UNCHANGED <<seqCache, seqRet>>
    /\ UNCHANGED <<cache, tick, targ, tret, tlen>>
    /\ UNCHANGED nonThrVars

\* get: `if key not in self.cache: return None`
ThreadGetCheck(t) ==
    /\ tpc[t] = "get_check"
    /\ IF targ[t].key \notin Keys(cache)
       THEN /\ tret' = [tret EXCEPT ![t] = None]
            /\ lock' = NoThread
            /\ tpc' = [tpc EXCEPT ![t] = "idle"]
       ELSE /\ tpc' = [tpc EXCEPT ![t] = "get_move"]
            /\ UNCHANGED <<tret, lock>>
    /\ UNCHANGED <<cache, tick, targ, tlen, seqCache, seqRet>>
    /\ UNCHANGED nonThrVars

\* get: `self.cache.move_to_end(key)`
ThreadGetMove(t) ==
    /\ tpc[t] = "get_move"
    /\ targ[t].key \in Keys(cache)
    /\ cache' = move_to_end(cache, targ[t].key)
    /\ tpc' = [tpc EXCEPT ![t] = "get_read"]
    /\ UNCHANGED <<lock, tick, targ, tret, tlen, seqCache, seqRet>>
    /\ UNCHANGED nonThrVars

\* get: `return self.cache[key]`
ThreadGetRead(t) ==
    /\ tpc[t] = "get_read"
    /\ targ[t].key \in Keys(cache)
    /\ tret' = [tret EXCEPT ![t] = Some(Lookup(cache, targ[t].key))]
    /\ lock' = NoThread
    /\ tpc' = [tpc EXCEPT ![t] = "idle"]
    /\ UNCHANGED <<cache, tick, targ, tlen, seqCache, seqRet>>
    /\ UNCHANGED nonThrVars

\* put: `if key in self.cache: self.cache.move_to_end(key)`
ThreadPutCheck(t) ==
    /\ tpc[t] = "put_check"
    /\ cache' = IF targ[t].key \in Keys(cache)
                THEN move_to_end(cache, targ[t].key) ELSE cache
    /\ tpc' = [tpc EXCEPT ![t] = "put_set"]
    /\ UNCHANGED <<lock, tick, targ, tret, tlen, seqCache, seqRet>>
    /\ UNCHANGED nonThrVars

\* put: `self.cache[key] = value`
ThreadPutSet(t) ==
    /\ tpc[t] = "put_set"
    /\ cache' = setitem(cache, targ[t].key, targ[t].value)
    /\ tpc' = [tpc EXCEPT ![t] = "put_evict"]
    /\ UNCHANGED <<lock, tick, targ, tret, tlen, seqCache, seqRet>>
    /\ UNCHANGED nonThrVars

\* put: `if len(self.cache) > self.capacity: self.cache.popitem(last=False)`
ThreadPutEvict(t) ==
    /\ tpc[t] = "put_evict"
    /\ cache' = IF Len(cache) > capacity THEN popitem_first(cache) ELSE cache
    /\ lock' = NoThread
    /\ tpc' = [tpc EXCEPT ![t] = "idle"]
    /\ UNCHANGED <<tick, targ, tret, tlen, seqCache, seqRet>>
    /\ UNCHANGED nonThrVars

\* __len__: `return len(self.cache)`
ThreadLenRead(t) ==
    /\ tpc[t] = "len_read"
    /\ tlen' = [tlen EXCEPT ![t] = Len(cache)]
    /\ lock' = NoThread
    /\ tpc' = [tpc EXCEPT ![t] = "idle"]
    /\ UNCHANGED <<cache, tick, targ, tret, seqCache, seqRet>>
    /\ UNCHANGED nonThrVars

NextThreads ==
    \/ \E t \in Threads, o \in ThreadOps : ThreadCall(t, o)
    \/ \E t \in Threads : ThreadAcquire(t)
    \/ \E t \in Threads : ThreadGetCheck(t)
    \/ \E t \in Threads : ThreadGetMove(t)
    \/ \E t \in Threads : ThreadGetRead(t)
    \/ \E t \in Threads : ThreadPutCheck(t)
    \/ \E t \in Threads : ThreadPutSet(t)
    \/ \E t \in Threads : ThreadPutEvict(t)
    \/ \E t \in Threads : ThreadLenRead(t)

---------------------------------------------------------------------------
(* RAGEngine.answer_question on an AcademicFormatter: FORMAT is            *)
(* self.formatter.format_context(sources) of src/src/rag/formatter.py      *)

FormatAcademic ==
    /\ pc = "format"
    /\ LET out == Return(format_context(sources, max_context_length))
       IN  /\ calls' = Called("format_context", out)
           /\ context' = out.value
    /\ pc' = "prompt"
    /\ UNCHANGED <<question, sources, search_metrics, prompt, context_time,
                   result, raised, model_response, batchVars>>
    /\ UNCHANGED nonEngVars

NextPipeline ==
    \/ \E q \in Questions : AnswerQuestion(q)
    \/ Retrieve
    \/ FormatAcademic
    \/ GeneratePrompt
    \/ Interact
    \/ AnswerQuestionReturn

---------------------------------------------------------------------------
(* Functions without state: MilvusRetriever.estimate_search_quality       *)
(* (src/src/rag/retriever.py 168-193), create_formatter                    *)
(* (src/src/rag/formatter.py 204-226) and _compute_context_key             *)
(* (src/rag_cache.py 76-80)                                                *)

MaxScores == 3
MaxIds == 2

\* Python floats are binary floating point, every operation rounded to the
\* nearest float with ties to even; the model keeps the rounding and shortens
\* the significand to Precision bits.  A float is written as a natural
\* number of quarters.
Precision == 3

RECURSIVE UlpFrom(_, _, _)
UlpFrom(num, den, u) ==
    IF (2 ^ Precision) * u * den <= num THEN UlpFrom(num, den, 2 * u) ELSE u

\* the float nearest to num/den
FloatRound(num, den) ==
    LET u == UlpFrom(num, den, 1)
    IN  RoundHalfEven(num, den * u) * u

\* sum(xs): a left fold of float additions, starting from 0
RECURSIVE FloatSum(_)
FloatSum(xs) ==
    IF xs = <<>> THEN 0
    ELSE FloatRound(FloatSum(SubSeq(xs, 1, Len(xs) - 1)) + xs[Len(xs)], 1)

MinOf(xs) ==
    CHOOSE x \in {xs[i] : i \in DOMAIN xs} : \A i \in DOMAIN xs : x <= xs[i]

MaxOf(xs) ==
    CHOOSE x \in {xs[i] : i \in DOMAIN xs} : \A i \in DOMAIN xs : x >= xs[i]

\* (s - avg_score) ** 2, in sixteenths
SquaredDeviation(s, avg) ==
    LET dev == FloatRound(IF s >= avg THEN s - avg ELSE avg - s, 1)
    IN  FloatRound(dev * dev, 1)

\* MilvusRetriever.estimate_search_quality
estimate_search_quality(ss) ==
    IF ss = <<>>
    THEN [avg_score |-> 0, min_score |-> 0, max_score |-> 0,
          score_variance |-> 0]
    ELSE LET scores == [i \in DOMAIN ss |-> ss[i].score]
             avg_score == FloatRound(FloatSum(scores), Len(scores))
         IN  [avg_score |-> avg_score,
              min_score |-> MinOf(scores),
              max_score |-> MaxOf(scores),
              score_variance |->
                  FloatRound(FloatSum([i \in DOMAIN scores |->
                                         SquaredDeviation(scores[i], avg_score)]),
                             Len(scores))]

\* scores 0, 2.5, 5, 6 and 7, in quarters
QualityScores == {0, 10, 20, 24, 28}

QualityInputs ==
    UNION {[1..n -> {ArxivSource(IntId(1), "f1", 2020, <<>>, sc) :
                       sc \in QualityScores}] : n \in 0..MaxScores}

\* the keyword arguments a caller passes: the parameters of CustomFormatter
RequiredKeys == {"system_prompt", "context_template", "source_template"}

FormatterKwargs == SUBSET (RequiredKeys \cup {"max_context_length"})

FormatterTypes == {"academic", "custom", "other"}

\* AcademicFormatter(**kwargs) / CustomFormatter(**kwargs): the call raises
\* TypeError on a keyword that is no parameter or on a missing parameter
Construct(class, params, required, kwargs) ==
    IF kwargs \subseteq params /\ required \subseteq kwargs
    THEN Return([class |-> class, kwargs |-> kwargs])
    ELSE Raise(Exc("TypeError", [text |-> "__init__() got wrong arguments",
                                 keys |-> (kwargs \ params)
                                            \cup (required \ kwargs)]))

\* a create_formatter that leaves the validation to the constructor
create_formatter_Lazy(formatter_type, kwargs) ==
    IF formatter_type = "academic"
    THEN [out |-> Construct("AcademicFormatter", {"max_context_length"}, {},
                            kwargs),
          constructed |-> <<"AcademicFormatter">>]
    ELSE IF formatter_type = "custom"
    THEN [out |-> Construct("CustomFormatter",
                            RequiredKeys \cup {"max_context_length"},
                            RequiredKeys, kwargs),
          constructed |-> <<"CustomFormatter">>]
    ELSE [out |-> Raise(Exc("ValueError",
                            [text |-> "Unknown formatter type: ",
                             keys |-> {formatter_type}])),
          constructed |-> <<>>]

\* create_formatter: the outcome, and the constructors it called
create_formatter(formatter_type, kwargs) ==
    IF formatter_type = "academic"
    THEN [out |-> Construct("AcademicFormatter", {"max_context_length"}, {},
                            kwargs),
          constructed |-> <<"AcademicFormatter">>]
    ELSE IF formatter_type = "custom"
    THEN LET missing_keys == RequiredKeys \ kwargs
         IN  IF missing_keys # {}
             THEN [out |-> Raise(Exc("ValueError",
                                     [text |-> "Missing required templates: ",
                                      keys |-> missing_keys])),
                   constructed |-> <<>>]
             ELSE [out |-> Construct("CustomFormatter",
                                     RequiredKeys \cup {"max_context_length"},
                                     RequiredKeys, kwargs),
                   constructed |-> <<"CustomFormatter">>]
    ELSE [out |-> Raise(Exc("ValueError",
                            [text |-> "Unknown formatter type: ",
                             keys |-> {formatter_type}])),
          constructed |-> <<>>]

\* lists of document ids of one Python type: the ints 1 and 2, or the
\* strings "1", "2" and "1_2"
IdLists ==
    {<<>>}
    \cup UNION {[1..n -> {IntId(1), IntId(2)}] : n \in 1..MaxIds}
    \cup UNION {[1..n -> {StrId(<<"1">>), StrId(<<"2">>),
                          StrId(<<"1", "_", "2">>)}] : n \in 1..MaxIds}

\* HybridRetriever.retrieve: vector is the outcome of
\* self.vector_retriever.retrieve, reranker is self.reranker; the result is
\* the outcome of retrieve and the number of calls of reranker.rerank
Rerankers ==
    { None, Some([kind |-> "raise"]), Some([kind |-> "reverse"]) }

RerankerErrors == { Exc("ValueError", "rerank failed") }

Reversed(ss) == [i \in 1..Len(ss) |-> ss[Len(ss) + 1 - i]]

\* reranker.rerank(query, results) of the two rerankers
rerank(reranker, results) ==
    IF reranker.kind = "raise"
    THEN Raise(CHOOSE e \in RerankerErrors : TRUE)
    ELSE Return(Reversed(results))

\* a retrieve whose reranking is outside any try
HybridRetriever_retrieve_Unguarded(vector, reranker) ==
    IF vector.kind = "raise"
    THEN [out |-> vector, rerank_calls |-> 0]
    ELSE IF ~IsNone(reranker) /\ vector.value # <<>>
         THEN [out |-> rerank(Get(reranker), vector.value),
               rerank_calls |-> 1]
         ELSE [out |-> Return(vector.value), rerank_calls |-> 0]

HybridRetriever_retrieve(vector, reranker) ==
    IF vector.kind = "raise"
    THEN [out |-> vector, rerank_calls |-> 0]
    ELSE IF ~IsNone(reranker) /\ vector.value # <<>>
         THEN LET reranked == rerank(Get(reranker), vector.value)
              IN  IF reranked.kind = "raise"
                  THEN [out |-> Return(vector.value), rerank_calls |-> 1]
                  ELSE [out |-> reranked, rerank_calls |-> 1]
         ELSE [out |-> Return(vector.value), rerank_calls |-> 0]

\* MilvusClient.connect(retries, delay): the arguments of a call are whether
\* setup_database succeeds, retries and delay
MaxRetries == 4
Delays == {-1, 0, 2}

\* the calls a caller makes: a function and its arguments
FunctionCalls ==
    {[fn |-> "estimate_search_quality", args |-> <<ss>>] :
        ss \in QualityInputs}
    \cup {[fn |-> "create_formatter", args |-> <<t, kw>>] :
            t \in FormatterTypes, kw \in FormatterKwargs}
    \cup {[fn |-> "_compute_context_key", args |-> <<ids1, ids2>>] :
            ids1 \in IdLists, ids2 \in IdLists}
    \cup {[fn |-> "HybridRetriever.retrieve", args |-> <<v, rr>>] :
            v \in RetrieverOutcomes, rr \in Rerankers}

\* the calls of connect
ConnectCalls ==
    {[fn |-> "connect", args |-> <<ok, r, dl>>] :
        ok \in BOOLEAN, r \in 0..MaxRetries, dl \in Delays}

EstimateSearchQuality ==
    /\ fnPc = "call"
    /\ fnName = "estimate_search_quality"
    /\ fnOut' = estimate_search_quality(fnArgs[1])
    /\ fnPc' = "done"
    /\ UNCHANGED <<fnName, fnArgs>>
    /\ UNCHANGED nonFnVars

CreateFormatter ==
    /\ fnPc = "call"
    /\ fnName = "create_formatter"
    /\ fnOut' = create_formatter(fnArgs[1], fnArgs[2])
    /\ fnPc' = "done"
    /\ UNCHANGED <<fnName, fnArgs>>
    /\ UNCHANGED nonFnVars

\* _compute_context_key applied to two lists, one after the other
ComputeContextKeys ==
    /\ fnPc = "call"
    /\ fnName = "_compute_context_key"
    /\ fnOut' = <<compute_context_key(fnArgs[1]),
                  compute_context_key(fnArgs[2])>>
    /\ fnPc' = "done"
    /\ UNCHANGED <<fnName, fnArgs>>
    /\ UNCHANGED nonFnVars

HybridRetrieve ==
    /\ fnPc = "call"
    /\ fnName = "HybridRetriever.retrieve"
    /\ fnOut' = HybridRetriever_retrieve(fnArgs[1], fnArgs[2])
    /\ fnPc' = "done"
    /\ UNCHANGED <<fnName, fnArgs>>
    /\ UNCHANGED nonFnVars

\* connect up to its loop: setup_database, and `raise Exception("Database
\* setup failed")` into the outer handler's `return False`; a loop over an
\* empty range falls off the end of the function, which returns None
ConnectSetup ==
    /\ fnPc = "call"
    /\ fnName = "connect"
    /\ IF ~fnArgs[1]
       THEN /\ fnOut' = [attempts |-> 0, ret |-> Some(FALSE)]
            /\ fnPc' = "done"
       ELSE IF fnArgs[2] = 0
            THEN /\ fnOut' = [attempts |-> 0, ret |-> None]
                 /\ fnPc' = "done"
            ELSE /\ fnOut' = [attempts |-> 0, ret |-> None]
                 /\ fnPc' = "attempt"
    /\ UNCHANGED <<fnName, fnArgs>>
    /\ UNCHANGED nonFnVars

\* an iteration that sleeps and goes on after every failure
ConnectAttempt_RetryForever ==
    /\ fnPc = "attempt"
    /\ \E connected \in BOOLEAN :
          IF connected
          THEN /\ fnOut' = [attempts |-> fnOut.attempts + 1,
                            ret |-> Some(TRUE)]
               /\ fnPc' = "done"
          ELSE IF fnOut.attempts < MaxRetries + 1
               THEN /\ fnOut' = [fnOut EXCEPT !.attempts = @ + 1]
                    /\ fnPc' = "attempt"
               ELSE /\ fnOut' = [attempts |-> fnOut.attempts + 1,
                                 ret |-> Some(FALSE)]
                    /\ fnPc' = "done"
    /\ UNCHANGED <<fnName, fnArgs>>
    /\ UNCHANGED nonFnVars

\* one iteration of `for attempt in range(retries)`: connections.connect
\* returns or raises; time.sleep(delay) raises ValueError on a negative
\* delay, out of the inner handler and into the outer one
ConnectAttempt ==
    /\ fnPc = "attempt"
    /\ \E connected \in BOOLEAN :
          LET attempt == fnOut.attempts
              retries == fnArgs[2]
              delay == fnArgs[3]
          IN  IF connected
              THEN /\ fnOut' = [attempts |-> attempt + 1, ret |-> Some(TRUE)]
                   /\ fnPc' = "done"
              ELSE IF attempt < retries - 1 /\ delay >= 0
                   THEN /\ fnOut' = [fnOut EXCEPT !.attempts = @ + 1]
                        /\ fnPc' = "attempt"
                   ELSE /\ fnOut' = [attempts |-> attempt + 1,
                                     ret |-> Some(FALSE)]
                        /\ fnPc' = "done"
    /\ UNCHANGED <<fnName, fnArgs>>
    /\ UNCHANGED nonFnVars

NextFunctions ==
    \/ EstimateSearchQuality
    \/ CreateFormatter
    \/ ComputeContextKeys
    \/ HybridRetrieve

NextConnect ==
    \/ ConnectSetup
    \/ ConnectAttempt

---------------------------------------------------------------------------
(* CachedResearchAssistant.answer_question called by threads.  LRUCache.get *)
(* and LRUCache.put run under the cache's lock and are one step each; the   *)
(* `+= 1` on a stats counter is under no lock and is a read and a write.    *)

MaxCalls == 2

ConcurrentQuestions == { <<"h", "i">>, <<"y", "o">> }

ConcurrentSourceLists == { <<S1>>, <<T1>> }

ConcurrentOutcomes(q) ==
    {Raise(e) : e \in WrappedErrors}
    \cup {Return(r) : r \in {w \in WrappedResponses(q) :
                                w.sources \in ConcurrentSourceLists}}

InitConcurrent ==
    /\ ccPc = [t \in Threads |-> "idle"]
    /\ ccQuestion = [t \in Threads |-> <<>>]
    /\ ccReg = [t \in Threads |-> 0]
    /\ ccResponse = [t \in Threads |-> None]
    /\ ccEngine = [t \in Threads |-> FALSE]
    /\ ccStarted = 0
    /\ ccPuts = <<>>

\* thread t calls answer_question(q); `self.stats["total_queries"] += 1`
\* reads the counter
ConcCall(t, q) ==
    /\ ccPc[t] = "idle"
    /\ ccStarted < MaxCalls
    /\ ccStarted' = ccStarted + 1
    /\ ccQuestion' = [ccQuestion EXCEPT ![t] = q]
    /\ ccReg' = [ccReg EXCEPT ![t] = stats.total_queries]
    /\ ccResponse' = [ccResponse EXCEPT ![t] = None]
    /\ ccEngine' = [ccEngine EXCEPT ![t] = FALSE]
    /\ ccPc' = [ccPc EXCEPT ![t] = "count"]
    /\ UNCHANGED <<response_cache, context_cache, cache_size, stats, ccPuts>>
    /\ UNCHANGED nonCcVars

\* response_cache.get(key) and `if cached_response:`
ConcProbe(t) ==
    /\ ccPc[t] = "probe"
    /\ LET r == LRUCache_get(response_cache, compute_cache_key(ccQuestion[t]))
       IN  /\ response_cache' = r.cache
           /\ IF ~IsNone(r.ret)
              THEN /\ ccResponse' =
                         [ccResponse EXCEPT ![t] = Some(Get(r.ret).response)]
                   /\ ccPc' = [ccPc EXCEPT ![t] = "hit"]
              ELSE /\ ccPc' = [ccPc EXCEPT ![t] = "miss"]
                   /\ UNCHANGED ccResponse
    /\ UNCHANGED <<context_cache, cache_size, stats, ccQuestion, ccReg,
                   ccEngine, ccStarted, ccPuts>>
    /\ UNCHANGED nonCcVars

\* the read of `self.stats["cache_hits"] += 1` or of
\* `self.stats["cache_misses"] += 1`
ConcReadCounter(t) ==
    /\ ccPc[t] \in {"hit", "miss"}
    /\ ccReg' = [ccReg EXCEPT ![t] = IF ccPc[t] = "hit"
                                     THEN stats.cache_hits
                                     ELSE stats.cache_misses]
    /\ ccPc' = [ccPc EXCEPT ![t] = IF ccPc[t] = "hit"
                                   THEN "hit_store"
                                   ELSE "miss_store"]
    /\ UNCHANGED <<response_cache, context_cache, cache_size, stats,
                   ccQuestion, ccResponse, ccEngine, ccStarted, ccPuts>>
    /\ UNCHANGED nonCcVars

\* a `+= 1` that adds to the counter's value at the time of the write
ConcWriteCounter_Atomic(t) ==
    /\ ccPc[t] \in {"count", "hit_store", "miss_store"}
    /\ stats' = CASE ccPc[t] = "count" ->
                       [stats EXCEPT !.total_queries = @ + 1]
                  [] ccPc[t] = "hit_store" ->
                       [stats EXCEPT !.cache_hits = @ + 1]
                  [] ccPc[t] = "miss_store" ->
                       [stats EXCEPT !.cache_misses = @ + 1]
    /\ ccPc' = [ccPc EXCEPT ![t] = CASE ccPc[t] = "count" -> "probe"
                                     [] ccPc[t] = "hit_store" -> "idle"
                                     [] ccPc[t] = "miss_store" -> "engine"]
    /\ UNCHANGED <<response_cache, context_cache, cache_size, ccQuestion,
                   ccReg, ccResponse, ccEngine, ccStarted, ccPuts>>
    /\ UNCHANGED nonCcVars

\* the write of a `+= 1`: the value read, plus one; after the write of
\* cache_hits the call returns the cached response
ConcWriteCounter(t) ==
    /\ ccPc[t] \in {"count", "hit_store", "miss_store"}
    /\ stats' = CASE ccPc[t] = "count" ->
                       [stats EXCEPT !.total_queries = ccReg[t] + 1]
                  [] ccPc[t] = "hit_store" ->
                       [stats EXCEPT !.cache_hits = ccReg[t] + 1]
                  [] ccPc[t] = "miss_store" ->
                       [stats EXCEPT !.cache_misses = ccReg[t] + 1]
    /\ ccPc' = [ccPc EXCEPT ![t] = CASE ccPc[t] = "count" -> "probe"
                                     [] ccPc[t] = "hit_store" -> "idle"
                                     [] ccPc[t] = "miss_store" -> "engine"]
    /\ UNCHANGED <<response_cache, context_cache, cache_size, ccQuestion,
                   ccReg, ccResponse, ccEngine, ccStarted, ccPuts>>
    /\ UNCHANGED nonCcVars

\* self.engine.answer_question(question); an exception leaves the call
ConcEngine(t) ==
    /\ ccPc[t] = "engine"
    /\ \E out \in ConcurrentOutcomes(ccQuestion[t]) :
          IF out.kind = "raise"
          THEN /\ ccPc' = [ccPc EXCEPT ![t] = "idle"]
               /\ UNCHANGED ccResponse
          ELSE /\ ccResponse' = [ccResponse EXCEPT ![t] = Some(out.value)]
               /\ ccPc' = [ccPc EXCEPT ![t] = "store"]
    /\ ccEngine' = [ccEngine EXCEPT ![t] = TRUE]
    /\ UNCHANGED <<response_cache, context_cache, cache_size, stats,
                   ccQuestion, ccReg, ccStarted, ccPuts>>
    /\ UNCHANGED nonCcVars

\* a _cache_response that leaves the entry of a resident key as it is
ConcStore_KeepFirst(t) ==
    /\ ccPc[t] = "store"
    /\ LET key == compute_cache_key(ccQuestion[t])
           response == Get(ccResponse[t])
       IN  /\ response_cache' =
                 IF key \in Keys(response_cache)
                 THEN response_cache
                 ELSE LRUCache_put(response_cache, cache_size, key,
                                   ResponseEntry(response))
           /\ ccPuts' = Append(ccPuts, [thread |-> t, key |-> key,
                                        response |-> response])
    /\ ccPc' = [ccPc EXCEPT ![t] = "context"]
    /\ UNCHANGED <<context_cache, cache_size, stats, ccQuestion, ccReg,
                   ccResponse, ccEngine, ccStarted>>
    /\ UNCHANGED nonCcVars

\* self._cache_response(question, response): response_cache.put
ConcStore(t) ==
    /\ ccPc[t] = "store"
    /\ LET key == compute_cache_key(ccQuestion[t])
           response == Get(ccResponse[t])
       IN  /\ response_cache' =
                 LRUCache_put(response_cache, cache_size, key,
                              ResponseEntry(response))
           /\ ccPuts' = Append(ccPuts, [thread |-> t, key |-> key,
                                        response |-> response])
    /\ ccPc' = [ccPc EXCEPT ![t] = "context"]
    /\ UNCHANGED <<context_cache, cache_size, stats, ccQuestion, ccReg,
                   ccResponse, ccEngine, ccStarted>>
    /\ UNCHANGED nonCcVars

\* self._cache_context(...): context_cache.put unless the key raises; then
\* the call returns or raises
ConcContext(t) ==
    /\ ccPc[t] = "context"
    /\ LET response == Get(ccResponse[t])
       IN  context_cache' =
              cache_context(context_cache, cache_size,
                            DocIds(response.sources), response.sources).cache
    /\ ccPc' = [ccPc EXCEPT ![t] = "idle"]
    /\ UNCHANGED <<response_cache, cache_size, stats, ccQuestion, ccReg,
                   ccResponse, ccEngine, ccStarted, ccPuts>>
    /\ UNCHANGED nonCcVars

NextConcurrent ==
    \E t \in Threads :
        \/ \E q \in ConcurrentQuestions : ConcCall(t, q)
        \/ ConcWriteCounter(t)
        \/ ConcProbe(t)
        \/ ConcReadCounter(t)
        \/ ConcEngine(t)
        \/ ConcStore(t)
        \/ ConcContext(t)

---------------------------------------------------------------------------
(* Specifications: each drives one component and leaves the others idle *)

\* no CachedResearchAssistant under test
IdleCached == InitCached /\ cache_size = 1

\* no LRUCache under test
IdleLRU == InitLRU /\ capacity = 0

\* no formatter under test
IdleFormatter == InitFormatter /\ max_context_length = 0

\* no function applied
InitFunctions ==
    /\ fnPc = "idle"
    /\ fnName = "none"
    /\ fnArgs = <<>>
    /\ fnOut = <<>>

\* the engine, called through answer_question and batch_process
Init ==
    InitEngine /\ IdleLRU /\ IdleCached /\ InitRetriever /\ IdleFormatter
    /\ InitThreads /\ InitFunctions
    /\ InitConcurrent

Next == NextEngine

Spec == Init /\ [][Next]_vars

\* one LRUCache, called through get and put
LRUInit ==
    InitLRU /\ InitEngine /\ IdleCached /\ InitRetriever /\ IdleFormatter
    /\ InitThreads /\ InitFunctions
    /\ InitConcurrent

LRUSpec == LRUInit /\ [][NextLRU]_vars

\* one CachedResearchAssistant, called through answer_question
CachedInit ==
    InitCached /\ InitEngine /\ IdleLRU /\ InitRetriever /\ IdleFormatter
    /\ InitThreads /\ InitFunctions
    /\ InitConcurrent

CachedSpec == CachedInit /\ [][NextCached]_vars

\* one MilvusRetriever on its MilvusClient, called through retrieve
RetrieverInit ==
    InitRetriever /\ InitEngine /\ IdleLRU /\ IdleCached /\ IdleFormatter
    /\ InitThreads /\ InitFunctions
    /\ InitConcurrent

RetrieverSpec == RetrieverInit /\ [][NextRetriever]_vars

\* one AcademicFormatter, called through format_context
FormatterInit ==
    InitFormatter /\ InitEngine /\ IdleLRU /\ IdleCached /\ InitRetriever
    /\ InitThreads /\ InitFunctions
    /\ InitConcurrent

FormatterSpec == FormatterInit /\ [][NextFormatter]_vars

\* one LRUCache shared by threads that call get and put
ThreadsInit ==
    InitLRU /\ InitThreads /\ InitEngine /\ IdleCached /\ InitRetriever
    /\ InitConcurrent
    /\ IdleFormatter /\ InitFunctions

ThreadsSpec == ThreadsInit /\ [][NextThreads]_vars

\* the engine, the retriever and the cached assistant, each called from its
\* initial state while the other two stay there
CoreInit ==
    InitEngine /\ InitRetriever /\ InitCached /\ IdleLRU /\ IdleFormatter
    /\ InitThreads /\ InitFunctions
    /\ InitConcurrent

CoreNext ==
    \/ InitRetriever /\ InitCached /\ NextEngine
    \/ InitEngine /\ InitCached /\ NextRetriever
    \/ InitEngine /\ InitRetriever /\ NextCached

CoreSpec == CoreInit /\ [][CoreNext]_vars

\* the engine with an AcademicFormatter of some max_context_length
PipelineInit ==
    InitEngine /\ InitFormatter /\ IdleLRU /\ IdleCached /\ InitRetriever
    /\ InitThreads /\ InitFunctions
    /\ InitConcurrent

PipelineSpec == PipelineInit /\ [][NextPipeline]_vars

\* the functions without state, each applied to one input
FunctionsInit ==
    /\ fnPc = "call"
    /\ \E call \in FunctionCalls : fnName = call.fn /\ fnArgs = call.args
    /\ fnOut = <<>>
    /\ InitEngine /\ IdleLRU /\ IdleCached /\ InitRetriever /\ IdleFormatter
    /\ InitThreads
    /\ InitConcurrent

FunctionsSpec == FunctionsInit /\ [][NextFunctions]_vars

\* one CachedResearchAssistant, called through answer_question by threads
ConcurrentInit ==
    InitCached /\ InitConcurrent /\ InitEngine /\ IdleLRU /\ InitRetriever
    /\ IdleFormatter /\ InitThreads /\ InitFunctions

ConcurrentSpec == ConcurrentInit /\ [][NextConcurrent]_vars

\* MilvusClient.connect, one call
ConnectInit ==
    /\ fnPc = "call"
    /\ \E call \in ConnectCalls : fnName = call.fn /\ fnArgs = call.args
    /\ fnOut = <<>>
    /\ InitEngine /\ IdleLRU /\ IdleCached /\ InitRetriever /\ IdleFormatter
    /\ InitThreads
    /\ InitConcurrent

ConnectSpec == ConnectInit /\ [][NextConnect]_vars

\* a call that has started runs on: the caller's thread executes connect to
\* its return, and connections.connect and time.sleep return or raise
ConnectFairSpec == ConnectSpec /\ WF_vars(NextConnect)

---------------------------------------------------------------------------
(* Claims about the LRUCache *)

\* the resident key whose last successful get or put is the oldest
LeastRecentlyUsed(c) ==
    CHOOSE k \in Keys(c) : \A j \in Keys(c) : lastUse[k] <= lastUse[j]

\* C3 (LRU eviction): with capacity >= 1, a put of a new key into a full
\* cache removes exactly the resident key whose last successful get or put is
\* the oldest and keeps every other key; a get of a key that is not resident
\* (an evicted key among them) returns None and changes nothing; a
\* successful get returns the stored value and makes its key the newest
\* entry; and no step removes a key except such an overflowing put.
C3_LRUEviction ==
    [][ (capacity >= 1 /\ tick' = tick + 1) =>
          LET op == lruLast'
              overflow == /\ op.op = "put"
                          /\ op.key \notin Keys(cache)
                          /\ Len(cache) = capacity
          IN  /\ overflow =>
                    /\ Keys(cache') =
                          (Keys(cache) \ {LeastRecentlyUsed(cache)}) \cup {op.key}
                    /\ op.evicted = {LeastRecentlyUsed(cache)}
              /\ (op.op = "get" /\ op.key \notin Keys(cache)) =>
                    /\ IsNone(op.ret)
                    /\ cache' = cache
              /\ (op.op = "get" /\ op.key \in Keys(cache)) =>
                    /\ op.ret = Some(Lookup(cache, op.key))
                    /\ cache'[Len(cache')].key = op.key
                    /\ Keys(cache') = Keys(cache)
              /\ (Keys(cache) \ Keys(cache') # {}) => overflow
      ]_vars

\* an evicted key was looked up again and missed while the cache was full
C3_Witness ==
    /\ capacity >= 1
    /\ lruLast.op = "get"
    /\ lruLast.key \in evictedKeys
    /\ IsNone(lruLast.ret)
    /\ Len(cache) = capacity

\* C4 (capacity invariant): for every capacity c >= 0 the cache never holds
\* more than c entries after a get or put, and a put evicts at most one entry.
C4_CapacityInvariant ==
    /\ capacity >= 0
    /\ Len(cache) <= capacity
    /\ Cardinality(lruLast.evicted) <= 1

\* a put overflowed and left the cache exactly full
C4_Witness ==
    /\ lruLast.op = "put"
    /\ lruLast.evicted # {}
    /\ Len(cache) = capacity

---------------------------------------------------------------------------
(* Claims about RAGEngine.answer_question and batch_process *)

Running == pc \in {"retrieve", "format", "prompt", "model"}

IsRAGResponse(v) ==
    DOMAIN v = {"question", "answer", "sources", "search_metrics",
                "model_metrics", "error"}

StageOrder ==
    <<"retrieve", "format_context", "generate_prompt", "interact_with_model">>

\* C1 (answer_question never raises): whatever the retriever, the formatter
\* or the model does, a running call can take its next step, a stage that
\* raised has ended the call, and a call that ended hands back a RAGResponse
\* for the question asked, never an exception.
C1_NeverRaises ==
    /\ Running => (IsNone(result) /\ IsNone(raised) /\ ENABLED Next)
    /\ ~IsNone(raised) => pc = "done"
    /\ pc = "done" =>
          /\ ~IsNone(result)
          /\ Get(result).kind = "return"
          /\ IsRAGResponse(Get(result).value)
          /\ Get(result).value.question = question

\* the model call, the last stage, raised and the call still returned
C1_Witness ==
    /\ pc = "done"
    /\ Len(calls) = 4
    /\ ~calls[4].ok
    /\ ~IsNone(raised)
    /\ Get(result).kind = "return"

\* C7 (stage ordering): the collaborator calls of one answer_question are a
\* prefix of retrieve, format_context, generate_prompt, interact_with_model,
\* each made once; a call that raised is the last one made; FORMAT is entered
\* only after a retrieval that found sources; and the call ends only after a
\* raise, after an empty retrieval, or after all four calls.
C7_StageOrdering ==
    /\ Len(calls) <= 4
    /\ \A i \in DOMAIN calls : calls[i].fn = StageOrder[i]
    /\ \A i \in DOMAIN calls : (i < Len(calls)) => calls[i].ok
    /\ Len(calls) >= 2 => sources # <<>>
    /\ pc = "retrieve" => Len(calls) = 0
    /\ pc = "format" => Len(calls) = 1
    /\ pc = "prompt" => Len(calls) = 2
    /\ pc = "model" => Len(calls) = 3
    /\ pc = "done" =>
          \/ ~IsNone(raised) /\ (~calls[Len(calls)].ok \/ Len(calls) = 4)
          \/ IsNone(raised) /\ Len(calls) = 1 /\ sources = <<>>
          \/ IsNone(raised) /\ Len(calls) = 4 /\ calls[4].ok

\* a call went through all four stages and none raised
C7_Witness ==
    /\ pc = "done"
    /\ Len(calls) = 4
    /\ calls[4].ok
    /\ IsNone(raised)

\* C8 (empty-result short circuit): once the retrieval has returned zero
\* sources the call is over, having called neither the formatter nor the
\* model, and its response has error None, the non-empty canned answer, no
\* sources, the retrieval's search metrics and all-zero model metrics.
C8_EmptyShortCircuit ==
    (Len(calls) >= 1 /\ calls[1].ok /\ sources = <<>>) =>
        /\ pc = "done"
        /\ Len(calls) = 1
        /\ Get(result).kind = "return"
        /\ LET r == Get(result).value
           IN  /\ IsNone(r.error)
               /\ r.answer = Some(NoPapersAnswer)
               /\ NoPapersAnswer # ""
               /\ r.sources = <<>>
               /\ r.search_metrics = search_metrics
               /\ r.model_metrics.context_time = 0
               /\ r.model_metrics.inference_time = 0
               /\ r.model_metrics.total_time = 0

\* a retrieval returned no sources and the call ended
C8_Witness ==
    /\ pc = "done"
    /\ Len(calls) = 1
    /\ calls[1].ok
    /\ sources = <<>>
    /\ search_metrics.total_time > 0

\* C9 as stated (degraded response keeps what was measured): after a stage
\* raised e, the response has error str(e) and the generic failure answer,
\* and when the retrieval had succeeded its search metrics are the measured
\* ones (num_results = n).
C9_KeepsMeasuredMetrics ==
    (pc = "done" /\ ~IsNone(raised)) =>
        LET r == Get(result).value
        IN  /\ r.error = Some(PyStr(Get(raised)))
            /\ r.answer = Some(FailureAnswer)
            /\ (calls[1].ok /\ sources # <<>>) =>
                  /\ r.search_metrics = search_metrics
                  /\ r.search_metrics.num_results = Len(sources)

\* C9 as amended (degraded response content): after a stage raised e, the
\* response has error str(e), the generic failure answer, no sources, and
\* search and model metrics that are all zero (num_results = 0), whatever
\* the retrieval had measured before the failure.
C9_DegradedResponse ==
    (pc = "done" /\ ~IsNone(raised)) =>
        /\ Get(result).kind = "return"
        /\ LET r == Get(result).value
           IN  /\ r.error = Some(PyStr(Get(raised)))
               /\ r.answer = Some(FailureAnswer)
               /\ r.sources = <<>>
               /\ r.search_metrics = ZeroSearchMetrics
               /\ r.search_metrics.num_results = 0
               /\ r.model_metrics = ZeroModelMetrics

\* a stage after a retrieval of two sources raised
C9_Witness ==
    /\ pc = "done"
    /\ ~IsNone(raised)
    /\ Len(calls) >= 2
    /\ Len(sources) = 2
    /\ search_metrics.num_results = 2
    /\ Get(result).value.search_metrics.num_results = 0

\* C10 (batch error isolation): while the loop runs it has one response per
\* finished question; when batch_process is done it has one response per
\* question, the i-th for the i-th question, with a non-null error exactly
\* for the questions one of whose stages raised.
C10_BatchIsolation ==
    /\ (mode = "batch" /\ pc # "batchdone") =>
          /\ bi \in 1..Len(questions)
          /\ Len(responses) = bi - 1
          /\ question = questions[bi]
    /\ mode = "batch" =>
          /\ Len(failedLog) = Len(responses)
          /\ \A i \in DOMAIN responses :
                /\ responses[i].question = questions[i]
                /\ failedLog[i] <=> ~IsNone(responses[i].error)
    /\ pc = "batchdone" => Len(responses) = Len(questions)

\* a batch ended whose first question failed and whose second succeeded
C10_Witness ==
    /\ pc = "batchdone"
    /\ Len(questions) >= 2
    /\ failedLog[1]
    /\ ~failedLog[2]
    /\ ~IsNone(responses[1].error)
    /\ IsNone(responses[2].error)

---------------------------------------------------------------------------
(* Claims about CachedResearchAssistant.answer_question *)

\* this call missed and the wrapped engine returned a response
EngineReturned == ~IsNone(engineOut) /\ Get(engineOut).kind = "return"

\* C2 (cache idempotence): when a call that missed and got a response from
\* the engine is followed by a call with the same question string, both
\* calls return, with the same answer; the second adds exactly one to
\* cache_hits and does not invoke the engine, whatever the sources are.
C2_CacheIdempotence ==
    (/\ craPc = "done"
     /\ ~IsNone(prevCall)
     /\ Get(prevCall).question = craQuestion
     /\ ~IsNone(Get(prevCall).engineOut)
     /\ Get(Get(prevCall).engineOut).kind = "return")
    =>  /\ Get(prevCall).result.kind = "return"
        /\ Get(craResult).kind = "return"
        /\ Get(craResult).value.answer = Get(prevCall).result.value.answer
        /\ stats.cache_hits = hitsBefore + 1
        /\ IsNone(engineOut)

\* C5 (miss path): when a call misses and the engine returns a response
\* whose sources have integer doc_ids, the call ends with the response stored
\* under the question's key, the derived context artifact stored in the
\* context cache, and the engine's response returned.
C5_MissPath ==
    (/\ craPc = "done"
     /\ EngineReturned
     /\ \A i \in DOMAIN Get(engineOut).value.sources :
           Get(engineOut).value.sources[i].doc_id.type = "int")
    =>  LET response == Get(engineOut).value
            key == compute_cache_key(craQuestion)
        IN  /\ craResult = Some(Return(response))
            /\ key \in Keys(response_cache)
            /\ Lookup(response_cache, key).response = response
            /\ \E i \in DOMAIN context_cache :
                  context_cache[i].value =
                      CachedContext(DocIds(response.sources), response.sources)

\* C6 (no error of the cache layer's own): a call raises only the exception
\* the wrapped engine raised, and returns whenever the engine returned.
C6_NoNewErrors ==
    craPc = "done" =>
        /\ Get(craResult).kind = "raise" =>
              /\ ~IsNone(engineOut)
              /\ Get(engineOut) = Raise(Get(craResult).exc)
        /\ EngineReturned => Get(craResult).kind = "return"

---------------------------------------------------------------------------
(* Claims about MilvusRetriever.retrieve *)

RetrieveReturned ==
    mrPc = "done" /\ ~IsNone(mrOutcome) /\ Get(mrOutcome).kind = "return"

RetrieveRaised ==
    mrPc = "done" /\ ~IsNone(mrOutcome) /\ Get(mrOutcome).kind = "raise"

\* the source_file values of a list, each kept at its first occurrence
RECURSIVE FirstSeenFiles(_, _)
FirstSeenFiles(files, seen) ==
    IF files = <<>> THEN <<>>
    ELSE IF Head(files) \in seen THEN FirstSeenFiles(Tail(files), seen)
    ELSE <<Head(files)>> \o FirstSeenFiles(Tail(files), seen \cup {Head(files)})

\* C11 (dedup by source_file): the sources retrieve returns hold at most one
\* source per source_file, namely the first hit of each file, in the order
\* in which the files first appear among the hits.
C11_DedupBySourceFile ==
    (RetrieveReturned /\ ~IsNone(mrHits)) =>
        LET ss == Get(mrOutcome).value
            mapped == SelectSeq(Get(mrHits), LAMBDA h : ~IsNone(h.distance))
        IN  /\ \A i, j \in DOMAIN ss :
                  i # j => ss[i].source_file # ss[j].source_file
            /\ [i \in DOMAIN ss |-> ss[i].source_file] =
                  FirstSeenFiles([i \in DOMAIN mapped |-> mapped[i].source_file],
                                 {})

\* C17 (no matches versus failure): retrieve returns an empty list only
\* after a search that returned zero hits, and a call one of whose steps
\* failed raises.
C17_EmptyOnlyWhenNoHits ==
    /\ (RetrieveReturned /\ Get(mrOutcome).value = <<>>) =>
          (~IsNone(mrHits) /\ Get(mrHits) = <<>>)
    /\ (mrPc = "done" /\ mrFailed # "none") => RetrieveRaised

\* C18 (distinct error kinds): over all the calls made so far, no exception
\* type raised because the embedding collaborator returned no vector is also
\* a type raised because the connection failed or the collection was not
\* obtained; and each such failure reaches the caller as a raise.
C18_DistinctErrorKinds ==
    /\ mrKinds["no_vector"]
          \cap (mrKinds["connect"] \cup mrKinds["get_collection"]) = {}
    /\ (mrPc = "done" /\ mrFailed \in {"no_vector", "connect", "get_collection"})
          => RetrieveRaised

\* C19 (symmetric release): when retrieve hands its outcome to the caller,
\* whichever step raised, nothing the call opened is still held (neither the
\* collection handle, nor the alias connection, nor the PyMilvus client) and
\* the call closed exactly what it opened.
C19_SymmetricRelease ==
    mrPc = "done" =>
        /\ "collection" \in mrAcquired => IsNone(mc_collection)
        /\ "connection" \in mrAcquired => ~mc_connected
        /\ "pymilvus_client" \in mrAcquired => IsNone(mc_pymilvus_client)
        /\ mrReleased = mrAcquired

---------------------------------------------------------------------------
(* Claims about AcademicFormatter.format_context *)

\* l1 + ... + lk for the sources of fmtSources under their indices 1..k
RECURSIVE RenderedSum(_)
RenderedSum(k) ==
    IF k = 0 THEN 0
    ELSE format_source(k, fmtSources[k]).length + RenderedSum(k - 1)

\* C12 (budget truncation): for a non-empty source list the context body
\* holds the whole renderings of the sources 1..k, in order, where k is the
\* largest index with l1 + ... + lk <= max_context_length: the lengths of
\* the k parts fit the budget, and either every source is included or the
\* source k + 1 would not fit; no source after k + 1 is included.
C12_BudgetTruncation ==
    (fmtPc = "done" /\ fmtSources # <<>>) =>
        LET k == Len(fmtOut.context_parts)
        IN  /\ k <= Len(fmtSources)
            /\ \A i \in 1..k :
                  fmtOut.context_parts[i] = format_source(i, fmtSources[i])
            /\ RenderedSum(k) <= max_context_length
            /\ k < Len(fmtSources) => RenderedSum(k + 1) > max_context_length

\* a source was dropped, and so was a later one that would have fit alone
C12_Witness ==
    /\ fmtPc = "done"
    /\ Len(fmtSources) = 3
    /\ Len(fmtOut.context_parts) = 1
    /\ RenderedSum(1) + format_source(3, fmtSources[3]).length
          <= max_context_length

\* C13 (citation consistency): the bibliography has one entry per part of
\* the context body, in the same order; entry i carries the index i, as does
\* part i, and both describe the i-th source given; no source beyond the
\* parts is listed.
C13_CitationConsistency ==
    fmtPc = "done" =>
        /\ Len(fmtOut.bibliography) = Len(fmtOut.context_parts)
        /\ \A i \in DOMAIN fmtOut.bibliography :
              /\ fmtOut.bibliography[i].index = i
              /\ fmtOut.context_parts[i].index = i
              /\ fmtOut.bibliography[i].source_file =
                    fmtOut.context_parts[i].source.source_file
              /\ fmtOut.bibliography[i].year =
                    fmtOut.context_parts[i].source.year
              /\ fmtOut.context_parts[i].source = fmtSources[i]

\* two sources were included and a third was dropped
C13_Witness ==
    /\ fmtPc = "done"
    /\ Len(fmtSources) = 3
    /\ Len(fmtOut.context_parts) = 2
    /\ Len(fmtOut.bibliography) = 2
    /\ fmtOut.bibliography[2].source_file = fmtSources[2].source_file

---------------------------------------------------------------------------
(* Claims about threads sharing one LRUCache *)

\* C14 (lock atomicity): at most one thread is inside a get or put, and it
\* is the one holding the lock; whenever no thread is inside, the cache is
\* what running the operations one by one, in the order they took the lock,
\* leaves, and holds at most `capacity` entries; a finished get returned
\* what it returns in that one-by-one run; no len() ever returned more than
\* `capacity`; and while a thread is inside, the cache exceeds the capacity
\* by at most the one entry its put is about to evict.
C14_LockAtomicity ==
    /\ Cardinality({t \in Threads : InCriticalSection(t)}) <= 1
    /\ \A t \in Threads : InCriticalSection(t) <=> lock = t
    /\ lock = NoThread =>
          /\ cache = seqCache
          /\ Len(cache) <= capacity
    /\ \A t \in Threads : tpc[t] = "idle" => tret[t] = seqRet[t]
    /\ \A t \in Threads : tlen[t] <= capacity
    /\ Len(cache) <= capacity + 1
    /\ Len(cache) > capacity =>
          \E t \in Threads : tpc[t] = "put_evict"

\* a get found its key while another thread was waiting for the lock with
\* a put that will evict
C14_Witness ==
    /\ capacity = 1
    /\ \E t, u \in Threads :
          /\ t # u
          /\ tpc[t] = "get_read"
          /\ tpc[u] = "waiting"
          /\ targ[u].op = "put"
          /\ targ[u].key \notin Keys(cache)

---------------------------------------------------------------------------
(* Further claims about RAGEngine.answer_question *)

\* the model call of this answer_question returned `reply`
ModelReplied == pc = "done" /\ ~IsNone(model_response)

\* the reply is None, an empty dict, or a dict without the key 'choices'
NoChoices(reply) == Falsy(reply) \/ IsNone(Get(reply).choices)

\* C15 (well-formed answer): whatever the collaborators did, the response of
\* a call that ended has an answer that is a string and is not empty.
C15_AnswerNeverEmpty ==
    pc = "done" =>
        /\ Get(result).kind = "return"
        /\ ~IsNone(Get(result).value.answer)
        /\ Get(Get(result).value.answer) # ""

\* C16 (malformed model reply): when the model returned None, an empty dict
\* or a dict without 'choices', generate_response raised ValueError("Invalid
\* model response"); when it returned a dict whose 'choices' is an empty
\* list, generate_response raised as well; in each of these cases the call
\* returned a response whose error is str of that exception and whose answer
\* is the generic failure message.
C16_MalformedReply ==
    ModelReplied =>
        LET reply == Get(model_response)
            emptyChoices == /\ ~NoChoices(reply)
                            /\ Get(Get(reply).choices) = <<>>
        IN  /\ NoChoices(reply) =>
                  raised = Some(Exc("ValueError", "Invalid model response"))
            /\ (NoChoices(reply) \/ emptyChoices) =>
                  /\ ~IsNone(raised)
                  /\ Get(result).kind = "return"
                  /\ Get(result).value.error = Some(PyStr(Get(raised)))
                  /\ ~IsNone(Get(result).value.error)
                  /\ Get(result).value.answer = Some(FailureAnswer)

\* the model returned a dict with an empty 'choices' list and the call ended
\* with a degraded response
C16_Witness ==
    /\ ModelReplied
    /\ ~NoChoices(Get(model_response))
    /\ Get(Get(model_response)).choices = Some(<<>>)
    /\ ~IsNone(Get(result).value.error)

---------------------------------------------------------------------------
(* Further claims about CachedResearchAssistant.answer_question *)

\* a question lower-cased, with every run of whitespace turned into one
\* space and the whitespace at its ends removed, character by character:
\* `out` is what has been emitted, `gap` whether whitespace was passed since
RECURSIVE Collapsed(_, _, _)
Collapsed(str, out, gap) ==
    IF str = <<>> THEN out
    ELSE IF IsSpace(Head(str)) THEN Collapsed(Tail(str), out, TRUE)
    ELSE Collapsed(Tail(str),
                   (IF gap /\ out # <<>> THEN Append(out, " ") ELSE out)
                       \o <<Lower(Head(str))>>,
                   FALSE)

Normalized(q) == Collapsed(q, <<>>, FALSE)

\* the call before this one left a response in the cache: it was a hit, or
\* it missed and the engine returned
PreviousCached ==
    /\ ~IsNone(prevCall)
    /\ \/ IsNone(Get(prevCall).engineOut)
       \/ Get(Get(prevCall).engineOut).kind = "return"

\* C20 (response-key normalization): two questions have the same response
\* key exactly when they are equal after normalization; and a call whose
\* question equals, after normalization, that of the call before it, which
\* left a response in the cache, is a hit: it returns, adds one to
\* cache_hits and does not reach the engine.
C20_KeyNormalization ==
    /\ \A q1, q2 \in CachedQuestions :
          (Normalized(q1) = Normalized(q2))
             <=> (compute_cache_key(q1) = compute_cache_key(q2))
    /\ (/\ craPc = "done"
        /\ PreviousCached
        /\ Normalized(Get(prevCall).question) = Normalized(craQuestion))
       => /\ Get(craResult).kind = "return"
          /\ stats.cache_hits = hitsBefore + 1
          /\ IsNone(engineOut)

\* a question was a hit right after one that differs from it in case and
\* whitespace
C20_Witness ==
    /\ craPc = "done"
    /\ PreviousCached
    /\ Get(prevCall).question = <<"h", " ", "i">>
    /\ craQuestion = <<" ", "H", "\t", " ", "I">>
    /\ stats.cache_hits = hitsBefore + 1
    /\ IsNone(engineOut)

\* the context key of the response this miss got from the engine
MissContextKey == compute_context_key(DocIds(Get(craResponse).sources))

\* C21 (context reuse): when the context step of a miss finds an entry
\* under the context key of the retrieved documents, the entry it leaves
\* under that key is the one that was there: the artifact built earlier is
\* reused, not rebuilt and overwritten.
C21_ContextReuse ==
    [][ (/\ craPc = "context"
         /\ craPc' = "done"
         /\ MissContextKey.kind = "return"
         /\ MissContextKey.value \in Keys(context_cache))
        => Lookup(context_cache', MissContextKey.value)
              = Lookup(context_cache, MissContextKey.value)
      ]_vars

\* the engine raised during the miss of the current call
EngineRaised == ~IsNone(engineOut) /\ Get(engineOut).kind = "raise"

\* C22 (state unchanged on engine failure): the probe of a miss leaves both
\* caches as they were and adds one to total_queries and to cache_misses
\* only; when the wrapped engine then raises, the step leaves both caches and
\* the counters as they were and the caller gets the engine's exception.
C22_UnchangedOnEngineFailure ==
    [][ /\ (craPc = "idle" /\ craPc' = "engine")
           => /\ response_cache' = response_cache
              /\ context_cache' = context_cache
              /\ stats' = [stats EXCEPT !.total_queries = @ + 1,
                                        !.cache_misses = @ + 1]
        /\ (craPc = "engine" /\ craPc' = "done")
           => /\ EngineRaised'
              /\ craResult' = Some(Raise(Get(engineOut').exc))
              /\ response_cache' = response_cache
              /\ context_cache' = context_cache
              /\ stats' = stats
      ]_vars

\* the engine raised on a miss while both caches held an entry
C22_Witness ==
    /\ craPc = "done"
    /\ EngineRaised
    /\ craResult = Some(Raise(Get(engineOut).exc))
    /\ response_cache # <<>>
    /\ context_cache # <<>>
    /\ stats.cache_misses = 2

\* the number a reader parses from a printed decimal with two places, in
\* hundredths; a trailing percent sign is not part of the number
DigitOf(ch) == CHOOSE n \in 0..9 : DigitChars[n + 1] = ch

RECURSIVE ParseDigits(_)
ParseDigits(str) ==
    IF str = <<>> THEN 0
    ELSE 10 * ParseDigits(SubSeq(str, 1, Len(str) - 1))
         + (IF str[Len(str)] = "." THEN 0 ELSE DigitOf(str[Len(str)]))

ParseHundredths(str) ==
    LET digits == IF str[Len(str)] = "%"
                  THEN SubSeq(str, 1, Len(str) - 1) ELSE str
        point == CHOOSE i \in 1..Len(digits) : digits[i] = "."
    IN  100 * ParseDigits(SubSeq(digits, 1, point - 1))
        + ParseDigits(SubSeq(digits, point + 1, Len(digits)))

\* every call counts once, as a hit or as a miss, and nothing else counts
CountsOncePerCall ==
    /\ (craPc = "idle" /\ craPc' # "idle")
       => /\ stats'.total_queries = stats.total_queries + 1
          /\ \/ /\ stats'.cache_hits = stats.cache_hits + 1
                /\ stats'.cache_misses = stats.cache_misses
             \/ /\ stats'.cache_hits = stats.cache_hits
                /\ stats'.cache_misses = stats.cache_misses + 1
    /\ ~(craPc = "idle" /\ craPc' # "idle") => stats' = stats

\* the counters add up, and the reported counts and sizes are the current ones
CountsAndSizes ==
    /\ stats.cache_hits + stats.cache_misses = stats.total_queries
    /\ ~IsNone(reported)
       => /\ Get(reported).hits = stats.cache_hits
          /\ Get(reported).misses = stats.cache_misses
          /\ Get(reported).total_queries = stats.total_queries
          /\ Get(reported).response_cache_size = Len(response_cache)
          /\ Get(reported).context_cache_size = Len(context_cache)

\* C23 as stated (statistics accounting): every call adds one to
\* total_queries and to exactly one of cache_hits / cache_misses, so the two
\* add up to total_queries after every call; the reported sizes are the
\* entry counts of the two caches; and the reported hit rate is the number
\* cache_hits / total_queries, 0 when no query has been made.
C23_HitRateIsRatio ==
    /\ []CountsAndSizes
    /\ [][CountsOncePerCall]_vars
    /\ [](~IsNone(reported)
          => IF stats.total_queries = 0
             THEN ParseHundredths(Get(reported).hit_rate) = 0
             ELSE ParseHundredths(Get(reported).hit_rate)
                      * stats.total_queries
                  = 100 * stats.cache_hits)

\* C23 (statistics accounting), amended: the accounting and the sizes as
\* stated; the reported hit rate is a string, the percentage
\* 100 * cache_hits / max(1, total_queries) rounded to two decimals and
\* followed by a percent sign ("0.00%" when no query has been made).
C23_StatisticsAccounting ==
    /\ []CountsAndSizes
    /\ [][CountsOncePerCall]_vars
    /\ [](~IsNone(reported)
          => LET rate == Get(reported).hit_rate
             IN  /\ rate[Len(rate)] = "%"
                 /\ rate[Len(rate) - 3] = "."
                 /\ ParseHundredths(rate)
                      = RoundHalfEven(10000 * stats.cache_hits,
                                      Max(1, stats.total_queries)))

\* one hit in three calls, the last of which raised, reported as "33.33%"
C23_Witness ==
    /\ ~IsNone(reported)
    /\ stats = [cache_hits |-> 1, cache_misses |-> 2, total_queries |-> 3]
    /\ Get(reported).hit_rate = <<"3", "3", ".", "3", "3", "%">>
    /\ Get(prevCall).result.kind = "raise"
    /\ Get(reported).response_cache_size = 1

\* how many times fn occurs among the names of a call log
RECURSIVE Count(_, _)
Count(names, fn) ==
    IF names = <<>> THEN 0
    ELSE (IF Head(names) = fn THEN 1 ELSE 0) + Count(Tail(names), fn)

CallNames == [i \in DOMAIN calls |-> calls[i].fn]

\* C24 (no retries in the core): one RAGEngine.answer_question calls
\* retriever.retrieve and model.interact_with_model at most once each, also
\* when they fail; one MilvusRetriever.retrieve calls the embedding
\* collaborator exactly once and the search at most once; one
\* CachedResearchAssistant.answer_question calls the wrapped engine at most
\* once.
C24_NoRetries ==
    /\ Count(CallNames, "retrieve") <= 1
    /\ Count(CallNames, "interact_with_model") <= 1
    /\ pc = "done" => Count(CallNames, "retrieve") = 1
    /\ Count(mrCalls, "get_embedding") <= 1
    /\ mrPc \notin {"idle", "embed"} => Count(mrCalls, "get_embedding") = 1
    /\ Count(mrCalls, "search") <= 1
    /\ craCalls <= 1
    /\ (craPc = "done" /\ ~IsNone(engineOut)) => craCalls = 1

\* a retrieve whose search raised has ended: one embedding, one search
C24_Witness ==
    /\ mrPc = "done"
    /\ mrFailed = "search"
    /\ Count(mrCalls, "get_embedding") = 1
    /\ Count(mrCalls, "search") = 1

\* an answer_question whose model call raised has ended: one retrieve, one
\* model call
C24_EngineFailed ==
    /\ pc = "done"
    /\ ~IsNone(raised)
    /\ Count(CallNames, "interact_with_model") = 1
    /\ ~calls[Len(calls)].ok

\* a cached answer_question whose engine raised has ended: one engine call
C24_CachedFailed ==
    /\ craPc = "done"
    /\ EngineRaised
    /\ craCalls = 1

---------------------------------------------------------------------------
(* Claims about the functions without state *)

QualityScoresOf(ss) == [i \in DOMAIN ss |-> ss[i].score]

\* C25 (score ordering): for a non-empty list of sources
\* estimate_search_quality returns the least score as min_score, the
\* greatest as max_score, an avg_score between the two and a
\* score_variance >= 0; for the empty list all four values are 0.
C25_ScoreOrdering ==
    (fnPc = "done" /\ fnName = "estimate_search_quality") =>
        LET ss == fnArgs[1]
        IN  IF ss = <<>>
            THEN fnOut = [avg_score |-> 0, min_score |-> 0, max_score |-> 0,
                          score_variance |-> 0]
            ELSE /\ fnOut.min_score = MinOf(QualityScoresOf(ss))
                 /\ fnOut.max_score = MaxOf(QualityScoresOf(ss))
                 /\ fnOut.min_score <= fnOut.avg_score
                 /\ fnOut.avg_score <= fnOut.max_score
                 /\ fnOut.score_variance >= 0

\* the parts of C25 that hold: the extremes, the sign of the variance, the
\* empty list
C25_ExtremesAndVariance ==
    (fnPc = "done" /\ fnName = "estimate_search_quality") =>
        LET ss == fnArgs[1]
        IN  IF ss = <<>>
            THEN fnOut = [avg_score |-> 0, min_score |-> 0, max_score |-> 0,
                          score_variance |-> 0]
            ELSE /\ fnOut.min_score = MinOf(QualityScoresOf(ss))
                 /\ fnOut.max_score = MaxOf(QualityScoresOf(ss))
                 /\ fnOut.score_variance >= 0

\* create_formatter validates the templates before it constructs anything
\* and reports the missing ones in an error of type errorType
EagerValidation(errorType) ==
    (fnPc = "done" /\ fnName = "create_formatter") =>
        LET formatter_type == fnArgs[1]
            kwargs == fnArgs[2]
        IN  /\ (formatter_type = "custom" /\ ~(RequiredKeys \subseteq kwargs))
               => /\ fnOut.out.kind = "raise"
                  /\ fnOut.out.exc.type = errorType
                  /\ fnOut.out.exc.msg.keys = RequiredKeys \ kwargs
                  /\ fnOut.constructed = <<>>
            /\ (formatter_type = "custom" /\ RequiredKeys \subseteq kwargs)
               => /\ fnOut.out.kind = "return"
                  /\ fnOut.out.value.class = "CustomFormatter"
            /\ formatter_type \notin {"academic", "custom"}
               => /\ fnOut.out.kind = "raise"
                  /\ fnOut.constructed = <<>>

IdSet(ids) == {ids[i] : i \in DOMAIN ids}

\* ids2 is ids1 in another order
IsPermutation(ids1, ids2) ==
    /\ Len(ids1) = Len(ids2)
    /\ \A x \in IdSet(ids1) \cup IdSet(ids2) :
          Cardinality({i \in DOMAIN ids1 : ids1[i] = x})
            = Cardinality({i \in DOMAIN ids2 : ids2[i] = x})

\* C30 (context-key order insensitivity): _compute_context_key returns a
\* key for each of two lists of document ids; the keys are equal when one
\* list is a permutation of the other, and differ when the lists have
\* different sets of ids.
C30_ContextKeyOrderInsensitivity ==
    (fnPc = "done" /\ fnName = "_compute_context_key") =>
        /\ fnOut[1].kind = "return"
        /\ fnOut[2].kind = "return"
        /\ IsPermutation(fnArgs[1], fnArgs[2])
           => fnOut[1].value = fnOut[2].value
        /\ IdSet(fnArgs[1]) # IdSet(fnArgs[2])
           => fnOut[1].value # fnOut[2].value

\* what holds of C30: whenever the two calls return, permutations have the
\* same key, and lists of ids without an underscore that differ as sets have
\* different keys
C30_WhenKeysReturned ==
    (/\ fnPc = "done"
     /\ fnName = "_compute_context_key"
     /\ fnOut[1].kind = "return"
     /\ fnOut[2].kind = "return")
    => /\ IsPermutation(fnArgs[1], fnArgs[2])
          => fnOut[1].value = fnOut[2].value
       /\ (/\ IdSet(fnArgs[1]) # IdSet(fnArgs[2])
           /\ \A x \in IdSet(fnArgs[1]) \cup IdSet(fnArgs[2]) :
                 \A i \in DOMAIN x.str : x.str[i] # "_")
          => fnOut[1].value # fnOut[2].value

\* the same with the ids of an underscore kept in: two id sets collide
C30_StringIdsNeverCollide ==
    (/\ fnPc = "done"
     /\ fnName = "_compute_context_key"
     /\ fnOut[1].kind = "return"
     /\ fnOut[2].kind = "return"
     /\ IdSet(fnArgs[1]) # IdSet(fnArgs[2]))
    => fnOut[1].value # fnOut[2].value

---------------------------------------------------------------------------
(* Claims about the context cache and the two stores of a miss *)

\* text.split(separator), as format_list_items cuts technical_terms
RECURSIVE SplitAt(_, _, _)
SplitAt(str, separator, item) ==
    IF str = <<>> THEN <<item>>
    ELSE IF Head(str) = separator
    THEN <<item>> \o SplitAt(Tail(str), separator, <<>>)
    ELSE SplitAt(Tail(str), separator, Append(item, Head(str)))

\* the technical terms of a paper: the items of its comma-separated string
TermsOf(src) ==
    LET items == SplitAt(src.technical_terms, ",", <<>>)
    IN  {items[i] : i \in DOMAIN items} \ {<<>>}

\* the context step of this miss has stored its artifact
ContextStored ==
    /\ craPc = "done"
    /\ ~IsNone(craResponse)
    /\ Get(craResult).kind = "return"

StoredGraph == Lookup(context_cache, MissContextKey.value).knowledge_graph

NodesOfType(graph, type) == SelectSeq(graph.nodes, LAMBDA n : n.type = type)

NoRepeats(seq) == \A i, j \in DOMAIN seq : seq[i] = seq[j] => i = j

\* C27 (knowledge-graph shape): the graph built on a miss has one paper node
\* per retrieved paper, one term node per distinct technical term of the
\* papers, one contains edge from each paper to each of its terms, and
\* nothing else.
C27_KnowledgeGraphShape ==
    ContextStored =>
        LET ss == Get(craResponse).sources
            papers == NodesOfType(StoredGraph, "paper")
            terms == NodesOfType(StoredGraph, "term")
        IN  /\ NoRepeats(papers)
            /\ {papers[i].id : i \in DOMAIN papers}
                 = {ss[i].doc_id : i \in DOMAIN ss}
            /\ NoRepeats(terms)
            /\ {terms[i].id.str : i \in DOMAIN terms}
                 = UNION {TermsOf(ss[i]) : i \in DOMAIN ss}
            /\ NoRepeats(StoredGraph.edges)
            /\ {<<StoredGraph.edges[i].source, StoredGraph.edges[i].target.str>> :
                   i \in DOMAIN StoredGraph.edges}
                 = UNION {{<<ss[i].doc_id, t>> : t \in TermsOf(ss[i])} :
                            i \in DOMAIN ss}
            /\ Len(papers) + Len(terms) = Len(StoredGraph.nodes)

\* what holds of C27: one paper node per retrieved paper, in the order of
\* the sources, and one term node per distinct character of the papers'
\* technical_terms strings
C27_PaperNodesAndCharacterNodes ==
    ContextStored =>
        LET ss == Get(craResponse).sources
            papers == NodesOfType(StoredGraph, "paper")
            terms == NodesOfType(StoredGraph, "term")
        IN  /\ [i \in DOMAIN papers |-> papers[i].id] = DocIds(ss)
            /\ NoRepeats(terms)
            /\ {terms[i].id.str : i \in DOMAIN terms}
                 = UNION {{<<ss[i].technical_terms[j]>> :
                              j \in DOMAIN ss[i].technical_terms} :
                            i \in DOMAIN ss}

\* the response cache holds this miss's response under the question's key
ResponseStored ==
    /\ compute_cache_key(craQuestion) \in Keys(response_cache)
    /\ Lookup(response_cache, compute_cache_key(craQuestion)).response
         = Get(craResponse)

\* the call before this one got a response from the engine and then failed
\* in its context step
PreviousFailedInContext ==
    /\ ~IsNone(prevCall)
    /\ ~IsNone(Get(prevCall).engineOut)
    /\ Get(Get(prevCall).engineOut).kind = "return"
    /\ Get(prevCall).result.kind = "raise"

\* C28 (store ordering on a miss): the response is put in one step and the
\* context in a later one; whenever the context cache is written the
\* response entry of the same miss is already stored; while the context
\* step is pending or after it failed the response entry is cached, and a
\* repeat of the question right after such a failure is a hit that returns
\* the cached response without the engine.
C28_StoreOrdering ==
    /\ [][ /\ response_cache' # response_cache => context_cache' = context_cache
           /\ context_cache' # context_cache
              => craPc = "context" /\ ResponseStored
         ]_vars
    /\ [](craPc = "context" => ResponseStored)
    /\ []((craPc = "done" /\ ~IsNone(craResponse)) => ResponseStored)
    /\ []((/\ craPc = "done"
           /\ PreviousFailedInContext
           /\ compute_cache_key(Get(prevCall).question)
                = compute_cache_key(craQuestion))
          => /\ IsNone(engineOut)
             /\ Get(craResult)
                  = Return(Get(Get(prevCall).engineOut).value))

\* the repeat of a question whose context step had failed is being served
\* from the response cache, the context cache still empty
C28_Witness ==
    /\ craPc = "done"
    /\ PreviousFailedInContext
    /\ compute_cache_key(Get(prevCall).question) = compute_cache_key(craQuestion)
    /\ IsNone(engineOut)
    /\ Get(craResult).kind = "return"
    /\ context_cache = <<>>
    /\ response_cache # <<>>

\* C29 (cache independence): a step that changes the response cache
\* (a put with or without eviction, or the promotion of a hit) leaves the
\* context cache as it was, and a step that changes the context cache leaves
\* the response cache as it was; a hit leaves the context cache unchanged
\* and keeps the response cache's keys and entries, changing only their
\* order; each cache is bounded by cache_size on its own.
C29_CacheIndependence ==
    /\ [][ /\ response_cache' # response_cache
              => context_cache' = context_cache
           /\ context_cache' # context_cache
              => response_cache' = response_cache
           /\ (craPc = "idle" /\ craPc' = "done")
              => /\ context_cache' = context_cache
                 /\ Keys(response_cache') = Keys(response_cache)
                 /\ \A k \in Keys(response_cache) :
                       Lookup(response_cache', k) = Lookup(response_cache, k)
         ]_vars
    /\ [](/\ Len(response_cache) <= cache_size
          /\ Len(context_cache) <= cache_size
          /\ Keys(response_cache) \cap Keys(context_cache) = {})

\* both caches are full at once, and a hit has just promoted an entry of
\* the response cache
C29_Witness ==
    /\ craPc = "done"
    /\ IsNone(engineOut)
    /\ cache_size = 2
    /\ Len(response_cache) = 2
    /\ Len(context_cache) = 2
    /\ response_cache[2].key = compute_cache_key(craQuestion)
    /\ Get(prevCall).result.kind = "return"
    /\ compute_cache_key(Get(prevCall).question) # compute_cache_key(craQuestion)

---------------------------------------------------------------------------
(* Further claims about the LRUCache *)

\* the entries of c other than the one of key k, in their order
Others(c, k) == SelectSeq(c, LAMBDA e : e.key # k)

\* C36 (put on a resident key): put(k, v) for a key already in the cache
\* makes [k, v] the newest entry, keeps the number of entries, evicts nothing
\* and keeps the values and the relative order of all other keys; a get of
\* a missing key returns None and changes nothing.
C36_PutOnResidentKey ==
    [][ /\ (tick' = tick + 1 /\ lruLast'.op = "put" /\ lruLast'.resident)
           => /\ cache' = Append(Others(cache, lruLast'.key),
                                 [key |-> lruLast'.key,
                                  value |-> lruLast'.value])
              /\ Len(cache') = Len(cache)
              /\ Keys(cache') = Keys(cache)
              /\ lruLast'.evicted = {}
              /\ evictedKeys' = evictedKeys
        /\ (tick' = tick + 1 /\ lruLast'.op = "get" /\ ~lruLast'.resident)
           => /\ IsNone(lruLast'.ret)
              /\ cache' = cache
      ]_vars

\* a full cache of two entries after a put that gave a resident key the
\* value v2 and made it the newest, nothing having been evicted
C36_Witness ==
    /\ lruLast.op = "put"
    /\ lruLast.resident
    /\ capacity = 2
    /\ Len(cache) = 2
    /\ cache[2] = [key |-> lruLast.key, value |-> "v2"]
    /\ lastUse[cache[1].key] > 1
    /\ evictedKeys = {}

---------------------------------------------------------------------------
(* Further claims about the engine *)

MetricsAgree(r) ==
    /\ r.search_metrics.num_results = Len(r.sources)
    /\ r.sources = <<>> => r.search_metrics.avg_score = Fraction(0, 1)

\* C37 (metrics agree with sources): every RAGResponse that answer_question
\* returns, on success, on the zero-sources fallback and on the degraded
\* path, alone or inside batch_process, has search_metrics.num_results equal
\* to the length of its sources, and avg_score 0.0 when it has no sources.
C37_MetricsAgreeWithSources ==
    /\ (~IsNone(result) /\ Get(result).kind = "return")
       => MetricsAgree(Get(result).value)
    /\ \A i \in DOMAIN responses : MetricsAgree(responses[i])

\* a degraded response after a retrieval that had returned two sources
C37_Witness ==
    /\ pc = "done"
    /\ ~IsNone(raised)
    /\ search_metrics.num_results = 2
    /\ Get(result).value.sources = <<>>
    /\ Get(result).value.search_metrics.avg_score = Fraction(0, 1)
    /\ MetricsAgree(Get(result).value)

---------------------------------------------------------------------------
(* Claims about the engine on an AcademicFormatter *)

\* answer_question has returned a response built after the model's reply
Succeeded ==
    /\ pc = "done"
    /\ IsNone(raised)
    /\ Len(calls) = 4

\* C34 (sources versus context): a successful RAGResponse has as sources the
\* list the retriever returned, in its order, whatever format_context kept;
\* the context and the bibliography sent to the model hold a prefix of it,
\* which can be shorter.
C34_SourcesVersusContext ==
    Succeeded =>
        /\ Get(result).value.sources = sources
        /\ Get(result).value.search_metrics.num_results = Len(sources)
        /\ prompt[2] = context
        /\ Len(context.context_parts) <= Len(sources)
        /\ Len(context.bibliography) = Len(context.context_parts)
        /\ \A i \in DOMAIN context.context_parts :
              context.context_parts[i].source = sources[i]

\* two sources retrieved and returned, one of them in the context
C34_Witness ==
    /\ Succeeded
    /\ Len(Get(result).value.sources) = 2
    /\ Len(context.context_parts) = 1
    /\ Len(context.bibliography) = 1

\* the first rendered source alone is longer than max_context_length
FirstOverBudget ==
    /\ sources # <<>>
    /\ format_source(1, sources[1]).length > max_context_length

\* C35 (first source over budget): when the first rendered source alone
\* exceeds max_context_length, format_context returns, with no source and
\* an empty bibliography; answer_question goes on to GENERATE, and the
\* model, when called, gets that context without a paper.
C35_FirstSourceOverBudget ==
    /\ [][ (pc = "format" /\ FirstOverBudget)
           => /\ pc' = "prompt"
              /\ IsNone(raised')
              /\ calls'[2] = [fn |-> "format_context", ok |-> TRUE]
              /\ context' = [none_found |-> FALSE, context_parts |-> <<>>,
                             bibliography |-> <<>>]
         ]_vars
    /\ []((FirstOverBudget /\ Len(calls) = 4)
          => /\ calls[4].fn = "interact_with_model"
             /\ prompt[2].context_parts = <<>>
             /\ prompt[2].bibliography = <<>>)

\* the model answered a prompt whose context has no paper, and the response
\* lists the retrieved sources
C35_Witness ==
    /\ FirstOverBudget
    /\ Succeeded
    /\ prompt[2].context_parts = <<>>
    /\ Get(result).value.sources # <<>>
    /\ max_context_length >= 1

---------------------------------------------------------------------------
(* Claims about degraded responses in the response cache *)

\* a response with error set, or the fallback for no sources
Degraded(r) == ~IsNone(r.error) \/ r.sources = <<>>

\* C33 (degraded responses are cached): a miss whose engine returns a
\* degraded response leaves it in the response cache under the question's
\* key; and a call that finds a degraded response under its key returns that
\* response, as a hit, without reaching the engine, and leaves it in the
\* cache.
C33_DegradedResponsesCached ==
    [][ /\ (/\ craPc = "engine"
            /\ craPc' # "engine"
            /\ Get(engineOut').kind = "return"
            /\ Degraded(Get(engineOut').value))
           => /\ compute_cache_key(craQuestion) \in Keys(response_cache')
              /\ Lookup(response_cache', compute_cache_key(craQuestion))
                    .response = Get(engineOut').value
              /\ Len(response_cache') <= cache_size
        /\ (/\ craPc = "idle"
            /\ craPc' # "idle"
            /\ compute_cache_key(craQuestion') \in Keys(response_cache)
            /\ Degraded(Lookup(response_cache,
                               compute_cache_key(craQuestion')).response))
           => /\ craPc' = "done"
              /\ craResult' =
                    Some(Return(Lookup(response_cache,
                                       compute_cache_key(craQuestion'))
                                   .response))
              /\ stats'.cache_hits = stats.cache_hits + 1
              /\ IsNone(engineOut')
              /\ craCalls' = 0
              /\ Keys(response_cache') = Keys(response_cache)
              /\ Lookup(response_cache', compute_cache_key(craQuestion'))
                    = Lookup(response_cache, compute_cache_key(craQuestion'))
      ]_vars

\* a question was answered from the cache with the degraded response that
\* the call before it got from the engine
C33_Witness ==
    /\ craPc = "done"
    /\ ~IsNone(prevCall)
    /\ ~IsNone(Get(prevCall).engineOut)
    /\ Get(Get(prevCall).engineOut).kind = "return"
    /\ Degraded(Get(Get(prevCall).engineOut).value)
    /\ ~IsNone(Get(Get(prevCall).engineOut).value.error)
    /\ IsNone(engineOut)
    /\ craResult = Some(Return(Get(Get(prevCall).engineOut).value))
    /\ stats.cache_hits = hitsBefore + 1

---------------------------------------------------------------------------
(* Claims about HybridRetriever.retrieve and MilvusClient.connect *)

\* C38 (hybrid retrieval fallback): retrieve raises exactly when the vector
\* retriever raises, and then the same exception; when the reranker raises,
\* retrieve returns the vector results as they were; with no reranker or
\* with no vector results the reranker is not called and the vector results
\* are returned.
C38_HybridFallback ==
    (fnPc = "done" /\ fnName = "HybridRetriever.retrieve")
    => LET vector == fnArgs[1]
           reranker == fnArgs[2]
       IN  /\ (vector.kind = "raise")
                 => (fnOut.out = vector /\ fnOut.rerank_calls = 0)
           /\ (vector.kind = "return") => (fnOut.out.kind = "return")
           /\ (/\ vector.kind = "return"
               /\ ~IsNone(reranker)
               /\ vector.value # <<>>
               /\ rerank(Get(reranker), vector.value).kind = "raise")
                 => (fnOut.out = Return(vector.value)
                     /\ fnOut.rerank_calls = 1)
           /\ (/\ vector.kind = "return"
               /\ (IsNone(reranker) \/ vector.value = <<>>))
                 => (fnOut.out = Return(vector.value)
                     /\ fnOut.rerank_calls = 0)

\* the reranker raised on two results and retrieve returned them in order
C38_Witness ==
    /\ fnPc = "done"
    /\ fnName = "HybridRetriever.retrieve"
    /\ fnArgs[2] = Some([kind |-> "raise"])
    /\ fnArgs[1] = Return(<<S2, S1>>)
    /\ fnOut.out = Return(<<S2, S1>>)
    /\ fnOut.rerank_calls = 1

\* a call of connect with retries >= 1
ConnectCall == fnName = "connect" /\ fnArgs[2] >= 1

\* C39 (bounded connection retry): connect(retries = r >= 1) makes at most r
\* attempts and returns; no attempt follows a successful one; it returns
\* True exactly when an attempt succeeded, and False when setup_database
\* failed or after r failed attempts; it does not raise.
C39_BoundedRetry ==
    /\ [](ConnectCall /\ fnPc # "call"
          => /\ fnOut.attempts <= fnArgs[2]
             /\ (fnPc = "attempt") => (fnOut.attempts < fnArgs[2]
                                       /\ IsNone(fnOut.ret))
             /\ (fnPc = "done")
                   => /\ fnOut.ret \in {Some(TRUE), Some(FALSE)}
                      /\ ~fnArgs[1] => (fnOut.ret = Some(FALSE)
                                       /\ fnOut.attempts = 0)
                      /\ (fnOut.ret = Some(TRUE)) => fnOut.attempts >= 1
                      /\ (fnOut.attempts = fnArgs[2]
                          /\ fnOut.ret # Some(TRUE))
                            => fnOut.ret = Some(FALSE))
    /\ [][ (ConnectCall /\ fnPc = "attempt")
           => /\ fnOut'.attempts = fnOut.attempts + 1
              /\ (fnOut'.ret = Some(TRUE)) => fnPc' = "done"
              /\ (fnPc' = "attempt") => IsNone(fnOut'.ret)
              /\ (fnOut'.attempts = fnArgs[2]) => fnPc' = "done" ]_vars
    /\ [][ (ConnectCall /\ fnPc = "done") => UNCHANGED fnOut ]_vars
    /\ (ConnectCall ~> (fnPc = "done"))

\* connect returned False after three failed attempts
C39_Witness ==
    /\ fnName = "connect"
    /\ fnPc = "done"
    /\ fnArgs[2] = 3
    /\ fnOut.attempts = 3
    /\ fnOut.ret = Some(FALSE)

\* connect returned True at its second attempt of three
C39_WitnessSuccess ==
    /\ fnName = "connect"
    /\ fnPc = "done"
    /\ fnArgs[2] = 3
    /\ fnOut.attempts = 2
    /\ fnOut.ret = Some(TRUE)

---------------------------------------------------------------------------
(* Claims about concurrent callers of the cached assistant *)

\* every thread is outside answer_question
AllReturned == \A t \in Threads : ccPc[t] = "idle"

\* the positions of the puts under key k, in order
PutsOf(k) == {i \in DOMAIN ccPuts : ccPuts[i].key = k}

\* the response of the latest put under key k
LastPut(k) ==
    ccPuts[CHOOSE i \in PutsOf(k) : \A j \in PutsOf(k) : j <= i].response

\* C31 (concurrent duplicate miss): whatever the interleaving, the response
\* cache holds at most cache_size entries and at most one entry per key, a
\* resident entry is that of the latest put under its key, and the key of
\* the latest put is resident; so after two callers of one question have
\* both missed and stored, the cache holds exactly one entry for the key,
\* that of the later put.
C31_ConcurrentDuplicateMiss ==
    /\ Len(response_cache) <= cache_size
    /\ Cardinality(Keys(response_cache)) = Len(response_cache)
    /\ \A i \in DOMAIN response_cache :
          /\ PutsOf(response_cache[i].key) # {}
          /\ response_cache[i].value =
                ResponseEntry(LastPut(response_cache[i].key))
    /\ ccPuts # <<>> => ccPuts[Len(ccPuts)].key \in Keys(response_cache)
    /\ (/\ AllReturned
        /\ ccPuts # <<>>
        /\ \A i \in DOMAIN ccPuts : ccPuts[i].key = ccPuts[1].key)
       => /\ Cardinality({i \in DOMAIN response_cache :
                            response_cache[i].key = ccPuts[1].key}) = 1
          /\ Len(response_cache) = 1

\* two threads asked the same question, both missed, both invoked the
\* engine and got different responses; the cache holds the later one
C31_Witness ==
    /\ AllReturned
    /\ \A t \in Threads : ccEngine[t] /\ ccQuestion[t] = <<"h", "i">>
    /\ Len(ccPuts) = 2
    /\ ccPuts[1].thread # ccPuts[2].thread
    /\ ccPuts[1].response # ccPuts[2].response
    /\ Len(response_cache) = 1
    /\ response_cache[1].value = ResponseEntry(ccPuts[2].response)
    /\ stats.cache_misses = 2

\* C32 (statistics under concurrency): once every call has returned,
\* total_queries is the number of calls made and cache_hits + cache_misses
\* is total_queries.
C32_StatisticsUnderConcurrency ==
    AllReturned
    => /\ stats.total_queries = ccStarted
       /\ stats.cache_hits + stats.cache_misses = stats.total_queries

\* two calls have returned and total_queries is 1
C32_LostIncrement ==
    /\ AllReturned
    /\ ccStarted = 2
    /\ stats.total_queries = 1

===========================================================================
